---- MODULE Spec2Model ----
(***************************************************************************)
(* N-way schema comparison of src/modules/comparabd.py and the extraction  *)
(* of subroutine calls of src/modules/compare_events.py.                   *)
(*                                                                         *)
(* A DataFrame is a record [is_none, columns, rows]: columns is the set of *)
(* column labels, rows the sequence of rows, each row a function from the  *)
(* column labels to cells.  The cells of TABLE_NAME and COLUMN_NAME are    *)
(* strings; the cells of the attribute columns are Python values, written  *)
(* <<type, text>>.  A dict is the sequence of its items in insertion       *)
(* order.                                                                  *)
(***************************************************************************)
EXTENDS Integers, Sequences, FiniteSets, TLC

VARIABLES schemas_dict, pc, result, formula, subroutines, all_events, connections,
          position

vars ==
  <<schemas_dict, pc, result, formula, subroutines, all_events, connections, position>>

(***************************************************************************)
(* Bounds of the checked inputs.                                           *)
(***************************************************************************)
\* total number of rows over all the sources of one input mapping
MaxRows == 3

\* number of lines of a formula
MaxLines == 3

MaxEventRows == 3

SourceNames == <<"DB1", "DB2", "DB3">>

\* the schema names of the event comparison
EventSourceNames == <<"DB1", "DB2", "DB3", "DB4">>

Columns == {"A", "B"}

(***************************************************************************)
(* Python values and strings.                                              *)
(***************************************************************************)
None == <<"none", "">>

NaN == <<"nan", "">>

IntV(s) == <<"int", s>>

StrV(s) == <<"str", s>>

\* pd.isna(value)
isna(v) == v[1] \in {"none", "nan"}

\* str(float(value)) in the place of str(value): 10 shown as 10.0
str_float(v) ==
  CASE v[1] = "int" -> v[2] \o ".0"
    [] v[1] = "str" -> v[2]
    [] v[1] = "nan" -> "nan"
    [] OTHER -> "None"

\* str(value)
str(v) ==
  CASE v[1] = "int" -> v[2]
    [] v[1] = "str" -> v[2]
    [] v[1] = "nan" -> "nan"
    [] OTHER -> "None"

\* the strings the model sorts, in the order Python's str comparison gives
StrOrder ==
  << "", "A", "B", "BAR", "BAZ", "Column Missing", "DATA_LENGTH Different",
     "DATA_PRECISION Different", "DATA_SCALE Different", "DATA_TYPE Different",
     "FOO", "NULLABLE Different", "T1", "T2", "Table Missing", "a", "t1" >>

Rank(s) == CHOOSE i \in 1..Len(StrOrder) : StrOrder[i] = s

\* a < b on str
StrLess(a, b) == Rank(a) < Rank(b)

\* sorted(list(S)) for a set S of str
RECURSIVE sorted(_)
sorted(S) ==
  IF S = {} THEN <<>>
  ELSE LET m == CHOOSE x \in S : \A y \in S : ~StrLess(y, x)
       IN <<m>> \o sorted(S \ {m})

\* str.upper() on the column labels
Upper(s) ==
  CASE s = "table_name" -> "TABLE_NAME"
    [] s = "column_name" -> "COLUMN_NAME"
    [] s = "data_type" -> "DATA_TYPE"
    [] s = "data_length" -> "DATA_LENGTH"
    [] s = "data_precision" -> "DATA_PRECISION"
    [] s = "data_scale" -> "DATA_SCALE"
    [] s = "nullable" -> "NULLABLE"
    [] OTHER -> s

Range(s) == {s[i] : i \in 1..Len(s)}

\* concatenation of a sequence of sequences (list.extend / append in a loop)
RECURSIVE Flatten(_)
Flatten(ss) == IF ss = <<>> THEN <<>> ELSE Head(ss) \o Flatten(Tail(ss))

(***************************************************************************)
(* DataFrames.                                                             *)
(***************************************************************************)
NoneDF == [is_none |-> TRUE, columns |-> {}, rows |-> <<>>]

\* df.empty
empty(df) == df.rows = <<>> \/ df.columns = {}

\* df[col].unique(), as a set
unique(df, col) == {df.rows[i][col] : i \in 1..Len(df.rows)}

\* df[df['TABLE_NAME'] == table]
table_data(df, table) ==
  SelectSeq(df.rows, LAMBDA r : r["TABLE_NAME"] = table)

\* df[(df['TABLE_NAME'] == table) & (df['COLUMN_NAME'] == column)]
column_data(df, table, column) ==
  SelectSeq(df.rows, LAMBDA r : r["TABLE_NAME"] = table /\ r["COLUMN_NAME"] = column)

\* dict keys, in insertion order
keys(d) == [i \in 1..Len(d) |-> d[i].name]

\* the DataFrame stored under a key
get(d, name) == (CHOOSE e \in Range(d) : e.name = name).df

(***************************************************************************)
(* _normalize_schemas: None and empty DataFrames are skipped, the others   *)
(* are copied with their column labels upper-cased.                        *)
(***************************************************************************)
\* upper_columns without the assignment of the upper-cased labels
upper_columns_kept(df) == df

\* df.copy() followed by df_copy.columns = df_copy.columns.str.upper()
upper_columns(df) ==
  LET cols == {Upper(c) : c \in df.columns}
  IN [ is_none |-> FALSE,
       columns |-> cols,
       rows |-> [ i \in 1..Len(df.rows) |->
                  [ C \in cols |->
                    df.rows[i][CHOOSE c \in df.columns : Upper(c) = C] ] ] ]

\* df_after_normalize with the labels assigned to df itself
df_after_normalize_in_place(df) == upper_columns(df)

\* the caller's DataFrame when _normalize_schemas has handled it: the
\* upper-cased labels are assigned to df_copy, df keeps its own
df_after_normalize(df) == df

_normalize_schemas(schemas) ==
  LET kept == SelectSeq(schemas, LAMBDA e : ~(e.df.is_none \/ empty(e.df)))
  IN [ i \in 1..Len(kept) |->
       [name |-> kept[i].name, df |-> upper_columns(kept[i].df)] ]

(***************************************************************************)
(* _create_universe                                                        *)
(***************************************************************************)
\* all_tables, the set built by the first loop
universe_tables(schemas) ==
  UNION { unique(e.df, "TABLE_NAME") :
          e \in {x \in Range(schemas) :
                   "TABLE_NAME" \in x.df.columns /\ ~empty(x.df)} }

\* all_columns without the selection of the rows of the table
universe_columns_any_table(schemas, table) ==
  UNION { {r["COLUMN_NAME"] : r \in Range(e.df.rows)} :
          e \in {x \in Range(schemas) :
                   "TABLE_NAME" \in x.df.columns /\ "COLUMN_NAME" \in x.df.columns} }

\* all_columns, the set built for one table by the second loop
universe_columns(schemas, table) ==
  UNION { {r["COLUMN_NAME"] : r \in Range(table_data(e.df, table))} :
          e \in {x \in Range(schemas) :
                   "TABLE_NAME" \in x.df.columns /\ "COLUMN_NAME" \in x.df.columns} }

\* _create_universe with all_tables kept as a list: one entry per schema that
\* holds the table
_create_universe_list(schemas) ==
  [ all_tables |->
      Flatten([ i \in 1..Len(schemas) |->
                IF "TABLE_NAME" \in schemas[i].df.columns /\ ~empty(schemas[i].df)
                THEN sorted(unique(schemas[i].df, "TABLE_NAME")) ELSE <<>> ]),
    table_columns |-> [t \in universe_tables(schemas) |->
                         sorted(universe_columns(schemas, t))],
    schema_names |-> keys(schemas) ]

_create_universe(schemas) ==
  [ all_tables |-> sorted(universe_tables(schemas)),
    table_columns |-> [t \in universe_tables(schemas) |->
                         sorted(universe_columns(schemas, t))],
    schema_names |-> keys(schemas) ]

(***************************************************************************)
(* Difference records: a dict with the three fixed keys and one key per    *)
(* schema name, every value a str.                                         *)
(***************************************************************************)
FixedColumns == <<"TABLE_NAME", "COLUMN_NAME", "DIFFERENCE_TYPE">>

\* the row dict: the fixed keys, then row[schema_name] = value[schema_name]
\* for the schema names of the universe
make_row(table, column, difference_type, value) ==
  [ k \in Range(FixedColumns) \cup DOMAIN value |->
      CASE k = "TABLE_NAME" -> table
        [] k = "COLUMN_NAME" -> column
        [] k = "DIFFERENCE_TYPE" -> difference_type
        [] OTHER -> value[k] ]

\* the membership test of the table loops:
\* not df.empty and 'TABLE_NAME' in df.columns and table in df['TABLE_NAME'].unique()
has_table(df, table) ==
  ~empty(df) /\ "TABLE_NAME" \in df.columns /\ table \in unique(df, "TABLE_NAME")

(***************************************************************************)
(* _find_table_differences                                                 *)
(***************************************************************************)
\* table_status with the two tokens exchanged
table_status_swapped(df, table) ==
  IF has_table(df, table) THEN "MISSING" ELSE "EXISTS"

\* schema_status[schema_name] of the table loop
table_status(df, table) ==
  IF has_table(df, table) THEN "EXISTS" ELSE "MISSING"

\* is_table_difference asking for more than one missing schema
is_table_difference_two(missing_schemas) == Len(missing_schemas) > 1

\* "if missing_schemas:" of the table loop
is_table_difference(missing_schemas) == missing_schemas # <<>>

_find_table_differences(universe, schemas) ==
  LET one(table) ==
        LET missing_schemas ==
              SelectSeq(keys(schemas),
                        LAMBDA n : table_status(get(schemas, n), table) = "MISSING")
        IN IF is_table_difference(missing_schemas)
           THEN << make_row(table, "", "Table Missing",
                            [ n \in Range(universe.schema_names) |-> IF n \in Range(keys(schemas))
                                       THEN table_status(get(schemas, n), table)
                                       ELSE "N/A" ]) >>
           ELSE <<>>
  IN Flatten([i \in 1..Len(universe.all_tables) |-> one(universe.all_tables[i])])

(***************************************************************************)
(* _find_column_differences                                                *)
(***************************************************************************)
\* schemas_with_table without the test that the table is among the schema's tables
schemas_with_table_any(schemas, table) ==
  SelectSeq(keys(schemas),
            LAMBDA n : ~empty(get(schemas, n)) /\ "TABLE_NAME" \in get(schemas, n).columns)

\* schemas_with_table: the names of the schemas that contain the table
schemas_with_table(schemas, table) ==
  SelectSeq(keys(schemas), LAMBDA n : has_table(get(schemas, n), table))

\* has_column without the test of the column's name
has_column_table_only(df, table, column) ==
  table_data(df, table) # <<>> /\ "COLUMN_NAME" \in df.columns

\* the EXISTS test of the column loop, for a schema that has the table
has_column(df, table, column) ==
  /\ table_data(df, table) # <<>>
  /\ "COLUMN_NAME" \in df.columns
  /\ column \in {r["COLUMN_NAME"] : r \in Range(table_data(df, table))}

_find_column_differences(universe, schemas) ==
  LET one_table(table) ==
        LET with_table == schemas_with_table(schemas, table)
            one_column(column) ==
              LET missing_schemas ==
                    SelectSeq(with_table,
                              LAMBDA n : ~has_column(get(schemas, n), table, column))
                  schema_status(n) ==
                    IF has_column(get(schemas, n), table, column)
                    THEN "EXISTS" ELSE "MISSING"
              IN IF missing_schemas # <<>>
                    /\ Len(missing_schemas) < Len(with_table)
                 THEN << make_row(table, column, "Column Missing",
                                  [ n \in Range(universe.schema_names) |->
                                      IF n \in Range(with_table)
                                      THEN schema_status(n) ELSE "N/A" ]) >>
                 ELSE <<>>
            cols == universe.table_columns[table]
        IN IF Len(with_table) <= 1
           THEN <<>>
           ELSE Flatten([j \in 1..Len(cols) |-> one_column(cols[j])])
  IN Flatten([i \in 1..Len(universe.all_tables) |-> one_table(universe.all_tables[i])])

(***************************************************************************)
(* _find_attribute_differences                                             *)
(***************************************************************************)
attributes ==
  <<"DATA_TYPE", "DATA_LENGTH", "DATA_PRECISION", "DATA_SCALE", "NULLABLE">>

\* the DataFrame the name df is bound to when the loop over
\* schemas_dict.items() has ended: the one of the last item
loop_df(schemas) == schemas[Len(schemas)].df

\* "if attr not in df.columns: continue", negated
attr_compared(attr, schemas) == attr \in loop_df(schemas).columns

\* the schema takes part in the collection loop and has a row for the column
in_schemas_with_column(df, table, column) ==
  /\ ~(empty(df) \/ "TABLE_NAME" \notin df.columns \/ "COLUMN_NAME" \notin df.columns)
  /\ column_data(df, table, column) # <<>>

\* attr_value without the pd.isna test
attr_value_no_isna(df, table, column, attr) ==
  LET info == column_data(df, table, column)[1]
  IN IF attr \in DOMAIN info THEN info[attr] ELSE None

\* column_info[schema_name].get(attr), with NaN and None turned into None
attr_value(df, table, column, attr) ==
  LET info == column_data(df, table, column)[1]
      value == IF attr \in DOMAIN info THEN info[attr] ELSE None
  IN IF isna(value) THEN None ELSE value

\* has_attr_difference with the comparison off by one
has_attr_difference_ge(unique_values) == Cardinality(unique_values) >= 1

\* "if len(unique_values) > 1:"
has_attr_difference(unique_values) == Cardinality(unique_values) > 1

_find_attribute_differences(universe, schemas) ==
  LET one_column(table, column) ==
        LET schemas_with_column ==
              SelectSeq(keys(schemas),
                        LAMBDA n : in_schemas_with_column(get(schemas, n), table, column))
            one_attr(attr) ==
              LET unique_values ==
                    { attr_value(get(schemas, n), table, column, attr) :
                      n \in Range(schemas_with_column) }
              IN IF attr_compared(attr, schemas) /\ has_attr_difference(unique_values)
                 THEN << make_row(table, column, attr \o " Different",
                                  [ n \in Range(universe.schema_names) |->
                                      IF n \in Range(schemas_with_column)
                                      THEN LET value ==
                                                 attr_value(get(schemas, n), table, column, attr)
                                           IN IF value # None THEN str(value) ELSE "NULL"
                                      ELSE "N/A" ]) >>
                 ELSE <<>>
        IN IF Len(schemas_with_column) < 2
           THEN <<>>
           ELSE Flatten([k \in 1..Len(attributes) |-> one_attr(attributes[k])])
      one_table(table) ==
        LET cols == universe.table_columns[table]
        IN Flatten([j \in 1..Len(cols) |-> one_column(table, cols[j])])
  IN Flatten([i \in 1..Len(universe.all_tables) |-> one_table(universe.all_tables[i])])

(***************************************************************************)
(* compare_all_schemas                                                     *)
(***************************************************************************)
\* pd.DataFrame(): no columns, no rows
EmptyDataFrame == [columns |-> <<>>, rows |-> <<>>]

\* row a sorts before row b under ['TABLE_NAME', 'COLUMN_NAME', 'DIFFERENCE_TYPE']
RowLess(a, b) ==
  \/ StrLess(a["TABLE_NAME"], b["TABLE_NAME"])
  \/ /\ a["TABLE_NAME"] = b["TABLE_NAME"]
     /\ \/ StrLess(a["COLUMN_NAME"], b["COLUMN_NAME"])
        \/ /\ a["COLUMN_NAME"] = b["COLUMN_NAME"]
           /\ StrLess(a["DIFFERENCE_TYPE"], b["DIFFERENCE_TYPE"])

\* diff_df.sort_values([...]): a stable sort of the rows
RECURSIVE sort_values(_)
sort_values(rows) ==
  IF rows = <<>> THEN <<>>
  ELSE LET i == CHOOSE k \in 1..Len(rows) :
                  /\ \A j \in 1..Len(rows) : ~RowLess(rows[j], rows[k])
                  /\ \A j \in 1..(k - 1) : RowLess(rows[k], rows[j])
       IN <<rows[i]>> \o
          sort_values([j \in 1..(Len(rows) - 1) |-> IF j < i THEN rows[j] ELSE rows[j + 1]])

\* the three detectors, in the order their results are appended
all_differences(normalized_schemas) ==
  LET universe == _create_universe(normalized_schemas)
  IN _find_table_differences(universe, normalized_schemas)
       \o _find_column_differences(universe, normalized_schemas)
       \o _find_attribute_differences(universe, normalized_schemas)

compare_all_schemas(schemas) ==
  IF Len(schemas) < 2 THEN EmptyDataFrame
  ELSE LET normalized_schemas == _normalize_schemas(schemas)
       IN IF normalized_schemas = <<>> THEN EmptyDataFrame
          ELSE LET diffs == all_differences(normalized_schemas)
               IN IF diffs # <<>>
                  THEN [ columns |-> FixedColumns \o keys(normalized_schemas),
                         rows |-> sort_values(diffs) ]
                  ELSE [ columns |-> FixedColumns \o keys(schemas),
                         rows |-> <<>> ]

\* the caller's mapping when compare_all_schemas has ended: the sources that
\* are normalized are those of a mapping of two or more that are neither None
\* nor empty; the detectors read the normalized copies only
schemas_after_compare(schemas) ==
  IF Len(schemas) < 2 THEN schemas
  ELSE [ i \in 1..Len(schemas) |->
           IF schemas[i].df.is_none \/ empty(schemas[i].df) THEN schemas[i]
           ELSE [name |-> schemas[i].name, df |-> df_after_normalize(schemas[i].df)] ]

(***************************************************************************)
(* The inputs: a mapping of up to Len(SourceNames) sources, filled in the  *)
(* insertion order of SourceNames, with at most MaxRows rows in all.  A    *)
(* source is None, an empty DataFrame, or a DataFrame of one of the Shapes *)
(* (all the columns of the collection query, or all but one of them).      *)
(***************************************************************************)
AllColumns ==
  { "TABLE_NAME", "COLUMN_NAME", "DATA_TYPE", "DATA_LENGTH", "DATA_PRECISION",
    "DATA_SCALE", "NULLABLE" }

Shapes ==
  { AllColumns, AllColumns \ {"TABLE_NAME"}, AllColumns \ {"COLUMN_NAME"},
    AllColumns \ {"DATA_LENGTH"} }

Lengths == {IntV("10"), IntV("20")}

FullRow(t, c, l) ==
  [ TABLE_NAME |-> t, COLUMN_NAME |-> c, DATA_TYPE |-> StrV("NUMBER"),
    DATA_LENGTH |-> l, DATA_PRECISION |-> None, DATA_SCALE |-> NaN,
    NULLABLE |-> StrV("Y") ]

\* the rows of the sources: table T1 with any column and length, table T2 with
\* its one column
FullRows ==
  {FullRow("T1", c, l) : c \in Columns, l \in Lengths} \cup {FullRow("T2", "A", IntV("10"))}

RowsOf(shape) == { [k \in shape |-> r[k]] : r \in FullRows }

\* Frames[n]: the DataFrames with exactly n rows (and None, for n = 0)
Frames ==
  [ n \in 0..MaxRows |->
      IF n = 0
      THEN {NoneDF, [is_none |-> FALSE, columns |-> AllColumns, rows |-> <<>>]}
      ELSE UNION { { [is_none |-> FALSE, columns |-> sh, rows |-> rs] :
                     rs \in [1..n -> RowsOf(sh)] } : sh \in Shapes } ]

RECURSIVE TotalRows(_)
TotalRows(schemas) ==
  IF schemas = <<>> THEN 0
  ELSE Len(Head(schemas).df.rows) + TotalRows(Tail(schemas))

(***************************************************************************)
(* The inputs with null values: column A of table T1 with a DATA_LENGTH    *)
(* and a DATA_SCALE that are None, NaN or a number, in a DataFrame that    *)
(* has the DATA_LENGTH column or lacks it.                                 *)
(***************************************************************************)
ValueLengths == {None, NaN, IntV("10")}

ValueScales == {None, NaN}

ValueShapes == {AllColumns, AllColumns \ {"DATA_LENGTH"}}

ValueRows ==
  { [FullRow("T1", "A", l) EXCEPT !["DATA_SCALE"] = s] :
      l \in ValueLengths, s \in ValueScales }

\* ValueFrames[n]: the DataFrames with exactly n such rows (and None, for n = 0)
ValueFrames ==
  [ n \in 0..MaxRows |->
      IF n = 0
      THEN {NoneDF, [is_none |-> FALSE, columns |-> AllColumns, rows |-> <<>>]}
      ELSE UNION { { [is_none |-> FALSE, columns |-> sh, rows |-> rs] :
                     rs \in [1..n -> {[k \in sh |-> r[k]] : r \in ValueRows}] } :
                   sh \in ValueShapes } ]

(***************************************************************************)
(* The inputs with letter case: the labels of a DataFrame are all in upper *)
(* case or all in lower case, and the names of tables and columns come in  *)
(* both cases.                                                             *)
(***************************************************************************)
LowerColumns ==
  { "table_name", "column_name", "data_type", "data_length", "data_precision",
    "data_scale", "nullable" }

CaseRows == {FullRow(t, c, IntV("10")) : t \in {"T1", "t1"}, c \in {"A", "a"}}

\* CaseFrames[n]: the DataFrames with exactly n such rows (and None, for n = 0)
CaseFrames ==
  [ n \in 0..MaxRows |->
      IF n = 0
      THEN {NoneDF, [is_none |-> FALSE, columns |-> LowerColumns, rows |-> <<>>]}
      ELSE UNION { { [is_none |-> FALSE, columns |-> labels, rows |-> rs] :
                     rs \in [1..n -> {[k \in labels |-> r[Upper(k)]] : r \in CaseRows}] } :
                   labels \in {AllColumns, LowerColumns} } ]

(***************************************************************************)
(* Text.  A Python str is a string; its characters are the strings of      *)
(* length one.                                                             *)
(***************************************************************************)
CharAt(s, i) == SubSeq(s, i, i)

Chars(s) == {CharAt(s, i) : i \in 1..Len(s)}

IndexOf(s, c) == CHOOSE i \in 1..Len(s) : CharAt(s, i) = c

\* the characters of the texts, in the order of their code points
CodePoints ==
  "\n \"'(),.0123456789:=ABCDEFGHIJKLMNOPQRSTUVWXYZ_abcdefghijklmnopqrstuvwxyz"

ord(c) == IndexOf(CodePoints, c)

\* a > b on str
code_point_greater(a, b) ==
  LET n == IF Len(a) < Len(b) THEN Len(a) ELSE Len(b)
      d == {i \in 1..n : CharAt(a, i) # CharAt(b, i)}
  IN IF d = {} THEN Len(a) > Len(b)
     ELSE LET i == CHOOSE k \in d : \A j \in d : k <= j
          IN ord(CharAt(a, i)) > ord(CharAt(b, i))

\* a < b on str: the order sorted() puts a list of str in
code_point_less(a, b) ==
  LET n == IF Len(a) < Len(b) THEN Len(a) ELSE Len(b)
      d == {i \in 1..n : CharAt(a, i) # CharAt(b, i)}
  IN IF d = {} THEN Len(a) < Len(b)
     ELSE LET i == CHOOSE k \in d : \A j \in d : k <= j
          IN ord(CharAt(a, i)) < ord(CharAt(b, i))

\* sorted(list(S)) for a set S of str
RECURSIVE sorted_list(_)
sorted_list(S) ==
  IF S = {} THEN <<>>
  ELSE LET m == CHOOSE x \in S : \A y \in S : ~code_point_less(y, x)
       IN <<m>> \o sorted_list(S \ {m})

(***************************************************************************)
(* The regular expressions of extract_subroutine_calls, matched the way    *)
(* re matches them under re.IGNORECASE.  Every class of a pattern is       *)
(* followed by a character outside the class, so the greedy match of the   *)
(* class is the only one to try.                                           *)
(***************************************************************************)
AsciiUpper == "ABCDEFGHIJKLMNOPQRSTUVWXYZ"

AsciiLower == "abcdefghijklmnopqrstuvwxyz"

\* the upper-case letter of every lower-case letter
ToUpper == [c \in Chars(AsciiLower) |-> CharAt(AsciiUpper, IndexOf(AsciiLower, c))]

\* the letter case re.IGNORECASE ignores
casefold(c) == IF c \in DOMAIN ToUpper THEN ToUpper[c] ELSE c

\* \s
Whitespace == {" ", "\t", "\n", "\r", "\f"}

\* [A-Z_], letter case ignored
NameStart == Chars(AsciiUpper) \cup Chars(AsciiLower) \cup {"_"}

\* [A-Z0-9_], letter case ignored
NameChars == NameStart \cup Chars("0123456789")

\* ["\']
Quotes == {"\"", "'"}

\* the end of the longest run of characters of the class from position i on:
\* the position after it
RECURSIVE span(_, _, _)
span(s, i, class) ==
  IF i > Len(s) \/ CharAt(s, i) \notin class THEN i ELSE span(s, i + 1, class)

\* the same for the characters outside the class
RECURSIVE span_not(_, _, _)
span_not(s, i, class) ==
  IF i > Len(s) \/ CharAt(s, i) \in class THEN i ELSE span_not(s, i + 1, class)

\* (?<!\')KEYWORD at position i
keyword_at(s, i, keyword) ==
  /\ i + Len(keyword) - 1 <= Len(s)
  /\ \A k \in 1..Len(keyword) :
       casefold(CharAt(s, i + k - 1)) = casefold(CharAt(keyword, k))
  /\ (i = 1 \/ CharAt(s, i - 1) # "'")

NoMatch == [ok |-> FALSE, end |-> 0, group |-> ""]

\* gosub_match with a name that may start with any character of a name
gosub_match_any_start(s, i) ==
  LET a == i + Len("GOSUB")
      n == span(s, a, Whitespace)
      e == span(s, n, NameChars)
  IN IF keyword_at(s, i, "GOSUB") /\ n > a /\ n <= Len(s) /\ CharAt(s, n) \in NameChars
     THEN [ok |-> TRUE, end |-> e, group |-> SubSeq(s, n, e - 1)]
     ELSE NoMatch

\* (?<!\')GOSUB\s+([A-Z_][A-Z0-9_]*) at position i
gosub_match(s, i) ==
  LET a == i + Len("GOSUB")
      n == span(s, a, Whitespace)
      e == span(s, n, NameChars)
  IN IF keyword_at(s, i, "GOSUB") /\ n > a /\ n <= Len(s) /\ CharAt(s, n) \in NameStart
     THEN [ok |-> TRUE, end |-> e, group |-> SubSeq(s, n, e - 1)]
     ELSE NoMatch

\* (?<!\')KEYWORD\s*\(\s*["\']([^"\']+)["\'] at position i
function_match(s, i, keyword) ==
  LET a == i + Len(keyword)
      p == span(s, a, Whitespace)
      q == span(s, p + 1, Whitespace)
      e == span_not(s, q + 1, Quotes)
  IN IF /\ keyword_at(s, i, keyword)
        /\ p <= Len(s) /\ CharAt(s, p) = "("
        /\ q <= Len(s) /\ CharAt(s, q) \in Quotes
        /\ e > q + 1 /\ e <= Len(s)
     THEN [ok |-> TRUE, end |-> e + 1, group |-> SubSeq(s, q + 1, e - 1)]
     ELSE NoMatch

function_patterns == <<"Subroutine", "BackgroundSubroutine", "PostSubroutine">>

\* re.findall(pattern, formula_str, re.IGNORECASE | re.MULTILINE) from
\* position i on, as a set: the groups of the matches, found from left to
\* right without overlap
RECURSIVE findall(_, _, _)
findall(pattern, s, i) ==
  IF i > Len(s) THEN {}
  ELSE LET m == IF pattern = "GOSUB" THEN gosub_match(s, i)
                ELSE function_match(s, i, pattern)
       IN IF m.ok THEN {m.group} \cup findall(pattern, s, m.end)
          ELSE findall(pattern, s, i + 1)

\* "not formula", for a formula that is None, NaN or a str
falsy(v) == v = None \/ v = StrV("")

extract_subroutine_calls(v) ==
  IF falsy(v) \/ isna(v) THEN <<>>
  ELSE LET formula_str == str(v)
           subs == findall("GOSUB", formula_str, 1)
                     \cup UNION { findall(function_patterns[k], formula_str, 1) :
                                  k \in 1..Len(function_patterns) }
       IN sorted_list(subs)

(***************************************************************************)
(* Event comparison of src/modules/compare_events.py.  all_events is a     *)
(* dict of dicts: the sequence of its items [name, data], data a function  *)
(* from table types to DataFrames.  The cells of the key columns are       *)
(* strings, the cells of the compared columns Python values.               *)
(***************************************************************************)
table_types == <<"events", "test_events", "database_events">>

\* pd.DataFrame(), as a table of an input
NoColumnsDF == [is_none |-> FALSE, columns |-> {}, rows |-> <<>>]

\* the two columns that identify an entry of a table type
key_columns(table_type) ==
  IF table_type \in {"events", "test_events"}
  THEN <<"template", "event">> ELSE <<"table_name", "event_name">>

\* compare_field
compare_field(table_type) ==
  IF table_type \in {"events", "test_events"} THEN "calls_list" ELSE "sub_name"

\* all_events.get(schema_name, {})
schema_data_of(events, schema_name) ==
  IF \E e \in Range(events) : e.name = schema_name
  THEN (CHOOSE e \in Range(events) : e.name = schema_name).data
  ELSE <<>>

\* schema_data.get(table_type, pd.DataFrame())
table_df_of(schema_data, table_type) ==
  IF table_type \in DOMAIN schema_data THEN schema_data[table_type] ELSE NoColumnsDF

\* the entries one schema adds to all_entries
schema_entries(schema_data, table_type) ==
  IF table_type \in DOMAIN schema_data
  THEN LET df == schema_data[table_type]
           k == key_columns(table_type)
       IN IF k[1] \in df.columns /\ k[2] \in df.columns
          THEN {<<r[k[1]], r[k[2]]>> : r \in Range(df.rows)}
          ELSE {}
  ELSE {}

\* a < b on tuples of two str
entry_less(a, b) ==
  \/ code_point_less(a[1], b[1])
  \/ a[1] = b[1] /\ code_point_less(a[2], b[2])

\* sorted(list(all_entries))
RECURSIVE sorted_entries(_)
sorted_entries(S) ==
  IF S = {} THEN <<>>
  ELSE LET m == CHOOSE x \in S : \A y \in S : ~entry_less(y, x)
       IN <<m>> \o sorted_entries(S \ {m})

create_events_universe(events) ==
  [ schemas |-> keys(events),
    tables |-> table_types,
    all_entries |->
      [ t \in Range(table_types) |->
          sorted_entries(UNION {schema_entries(e.data, t) : e \in Range(events)}) ] ]

\* str.replace(old, new), for one-character strings
RECURSIVE replace(_, _, _)
replace(s, old, new) ==
  IF s = "" THEN ""
  ELSE (IF CharAt(s, 1) = old THEN new ELSE CharAt(s, 1))
         \o replace(SubSeq(s, 2, Len(s)), old, new)

\* the lower-case letter of an upper-case ASCII letter
ToLower == [c \in Chars(AsciiUpper) |-> CharAt(AsciiLower, IndexOf(AsciiUpper, c))]

\* str.title(): a letter that follows a letter is lower-cased, any other
\* letter is upper-cased
RECURSIVE title_from(_, _)
title_from(s, i) ==
  IF i > Len(s) THEN ""
  ELSE LET c == CharAt(s, i)
           cased(x) == x \in DOMAIN ToUpper \/ x \in DOMAIN ToLower
           after_letter == i > 1 /\ cased(CharAt(s, i - 1))
       IN (IF after_letter
           THEN (IF c \in DOMAIN ToLower THEN ToLower[c] ELSE c)
           ELSE (IF c \in DOMAIN ToUpper THEN ToUpper[c] ELSE c))
            \o title_from(s, i + 1)

title(s) == title_from(s, 1)

\* f"{compare_field.replace('_', ' ').title()} Mismatch"
mismatch_type(table_type) ==
  title(replace(compare_field(table_type), "_", " ")) \o " Mismatch"

\* the selection of the rows of an entry raises KeyError: the table has rows
\* and lacks one of the key columns
selection_raises(table_df, table_type) ==
  /\ ~empty(table_df)
  /\ \E i \in 1..2 : key_columns(table_type)[i] \notin table_df.columns

\* matching_rows
matching_rows(table_df, table_type, entry) ==
  IF empty(table_df) THEN <<>>
  ELSE SelectSeq(table_df.rows,
                 LAMBDA r : /\ r[key_columns(table_type)[1]] = entry[1]
                            /\ r[key_columns(table_type)[2]] = entry[2])

\* schema_status[schema_name]
existence_status(rows) == IF rows # <<>> THEN "EXISTS" ELSE "MISSING"

\* entry_value reading the last matching row: matching_rows.iloc[-1]
entry_value_last(table_df, table_type, rows) ==
  IF rows # <<>>
  THEN IF compare_field(table_type) \in table_df.columns
       THEN LET value == rows[Len(rows)][compare_field(table_type)]
            IN IF ~isna(value) THEN str(value) ELSE ""
       ELSE ""
  ELSE "N/A"

\* schema_values[schema_name]
entry_value(table_df, table_type, rows) ==
  IF rows # <<>>
  THEN IF compare_field(table_type) \in table_df.columns
       THEN LET value == rows[1][compare_field(table_type)]
            IN IF ~isna(value) THEN str(value) ELSE ""
       ELSE ""
  ELSE "N/A"

\* one row of the differences
make_event_row(table_type, identifier, difference_type, per_schema) ==
  ("table_type" :> table_type) @@ ("identifier" :> identifier)
    @@ ("difference_type" :> difference_type) @@ per_schema

compare_table_events(events, table_type, universe) ==
  LET all_entries == universe.all_entries[table_type]
      table_df(n) == table_df_of(schema_data_of(events, n), table_type)
      one_entry(entry) ==
        LET identifier == entry[1] \o "." \o entry[2]
            rows(n) == matching_rows(table_df(n), table_type, entry)
            schema_status == [n \in Range(universe.schemas) |-> existence_status(rows(n))]
            schema_values ==
              [n \in Range(universe.schemas) |-> entry_value(table_df(n), table_type, rows(n))]
            status_values == {schema_status[n] : n \in Range(universe.schemas)}
            existing_schemas ==
              SelectSeq(universe.schemas, LAMBDA n : schema_status[n] = "EXISTS")
            unique_values == {schema_values[n] : n \in Range(existing_schemas)}
        IN (IF Cardinality(status_values) > 1
            THEN <<make_event_row(table_type, identifier, "Event Missing", schema_status)>>
            ELSE <<>>)
           \o
           (IF Len(existing_schemas) > 1 /\ Cardinality(unique_values) > 1
            THEN <<make_event_row(table_type, identifier, mismatch_type(table_type),
                                  [ n \in Range(universe.schemas) |->
                                      IF n \in Range(existing_schemas)
                                      THEN schema_values[n] ELSE "MISSING" ])>>
            ELSE <<>>)
  IN Flatten([i \in 1..Len(all_entries) |-> one_entry(all_entries[i])])

\* row a sorts before row b under ['table_type', 'identifier', 'difference_type']
EventRowLess(a, b) ==
  \/ code_point_less(a["table_type"], b["table_type"])
  \/ /\ a["table_type"] = b["table_type"]
     /\ \/ code_point_less(a["identifier"], b["identifier"])
        \/ /\ a["identifier"] = b["identifier"]
           /\ code_point_less(a["difference_type"], b["difference_type"])

\* diff_df.sort_values([...]): a stable sort of the rows
RECURSIVE sort_event_values(_)
sort_event_values(rows) ==
  IF rows = <<>> THEN <<>>
  ELSE LET i == CHOOSE k \in 1..Len(rows) :
                  /\ \A j \in 1..Len(rows) : ~EventRowLess(rows[j], rows[k])
                  /\ \A j \in 1..(k - 1) : EventRowLess(rows[k], rows[j])
       IN <<rows[i]>> \o
          sort_event_values([j \in 1..(Len(rows) - 1) |->
                               IF j < i THEN rows[j] ELSE rows[j + 1]])

EventColumns == <<"table_type", "identifier", "difference_type">>

\* compare_events_data raises KeyError: the selection raises for some table
\* type that has entries
compare_events_raises(events) ==
  /\ Len(events) >= 2
  /\ LET universe == create_events_universe(events)
     IN \E t \in Range(table_types) :
          /\ universe.all_entries[t] # <<>>
          /\ \E e \in Range(events) : selection_raises(table_df_of(e.data, t), t)

\* the DataFrame compare_events_data returns when it does not raise
compare_events_data(events) ==
  IF Len(events) < 2 THEN EmptyDataFrame
  ELSE LET universe == create_events_universe(events)
           all_differences_of ==
             Flatten([i \in 1..Len(table_types) |->
                        compare_table_events(events, table_types[i], universe)])
       IN [ columns |-> EventColumns \o universe.schemas,
            rows |-> sort_event_values(all_differences_of) ]

(***************************************************************************)
(* process_formula_field and the collection of the events of one           *)
(* connection.  A connection is the record of what its database gives:     *)
(* engine, what connect_to_oracle returns; connect, how engine.connect()   *)
(* ends; queries, how the query of each table ends; tables, the DataFrame  *)
(* each query returns when it does not raise.                              *)
(***************************************************************************)
\* sep.join(list)
RECURSIVE join(_, _)
join(sep, list) ==
  IF list = <<>> THEN ""
  ELSE IF Len(list) = 1 THEN list[1]
  ELSE list[1] \o sep \o join(sep, Tail(list))

Digits == "0123456789"

\* str(n), for an int that is not negative
RECURSIVE int_str(_)
int_str(n) ==
  IF n < 10 THEN CharAt(Digits, n + 1)
  ELSE int_str(n \div 10) \o CharAt(Digits, (n % 10) + 1)

process_formula_field(df) ==
  LET cols == (df.columns \cup {"calls_list", "calls_count"}) \ {"formula"}
      processed(row) ==
        LET subroutine_calls == extract_subroutine_calls(row["formula"])
        IN [ c \in cols |->
               CASE c = "calls_list" ->
                      StrV(IF subroutine_calls # <<>>
                           THEN join(", ", subroutine_calls) ELSE "")
                 [] c = "calls_count" -> IntV(int_str(Len(subroutine_calls)))
                 [] OTHER -> row[c] ]
  IN [ is_none |-> FALSE,
       columns |-> cols,
       rows |-> [i \in 1..Len(df.rows) |-> processed(df.rows[i])] ]

\* {}
EmptyDict == [t \in {} |-> NoColumnsDF]

\* the dict collect_events_data returns for a connection
collect_events_data(conn) ==
  IF conn.engine = "none" THEN EmptyDict
  ELSE IF conn.connect # "ok" THEN EmptyDict
  ELSE IF \E t \in Range(table_types) : conn.queries[t] = "Exception" THEN EmptyDict
  ELSE [ t \in Range(table_types) |->
           IF conn.queries[t] = "SQLAlchemyError" THEN NoColumnsDF
           ELSE IF t \in {"events", "test_events"} /\ "formula" \in conn.tables[t].columns
                THEN process_formula_field(conn.tables[t])
                ELSE conn.tables[t] ]

(***************************************************************************)
(* The inputs of the event comparison: up to four sources, with            *)
(* at most MaxEventRows rows in all.  Each source has the three tables; a  *)
(* table without rows is pd.DataFrame(), as after a failed query.  The     *)
(* rows of events and test_events are those process_formula_field leaves,  *)
(* the rows of database_events have the columns the comparison reads.      *)
(***************************************************************************)
EventsRow(e, c, n) ==
  [template |-> "TPL", event |-> e, calls_list |-> StrV(c), calls_count |-> IntV(n)]

DatabaseEventsRow(v) ==
  [table_name |-> "SAMPLE", event_name |-> "ON_SAVE", sub_name |-> v]

\* the rows a table of each type can have
TableRows ==
  [ t \in Range(table_types) |->
      CASE t = "events" ->
             {EventsRow(e, "FOO", "1") : e \in {"EVT", "EVT2"}}
               \cup {EventsRow(e, "FOO, BAR", "2") : e \in {"EVT", "EVT2"}}
        [] t = "test_events" -> {EventsRow("EVT", "FOO", "1")}
        [] t = "database_events" ->
             {DatabaseEventsRow(StrV("SUB1")), DatabaseEventsRow(None)} ]

\* the columns a table of each type can have: all of them, or, for events,
\* all but template
TableShapes ==
  [ t \in Range(table_types) |->
      CASE t = "events" ->
             { {"template", "event", "calls_list", "calls_count"},
               {"event", "calls_list", "calls_count"} }
        [] t = "test_events" -> { {"template", "event", "calls_list", "calls_count"} }
        [] t = "database_events" -> { {"table_name", "event_name", "sub_name"} } ]

\* the tables of a type with exactly n rows
TableFrames(t, n) ==
  IF n = 0 THEN {NoColumnsDF}
  ELSE UNION { { [is_none |-> FALSE, columns |-> sh, rows |-> rs] :
                 rs \in [1..n -> {[k \in sh |-> r[k]] : r \in TableRows[t]}] } :
               sh \in TableShapes[t] }

\* EventData[n]: the events_data of a source with exactly n rows in all
EventData ==
  [ n \in 0..MaxEventRows |->
      UNION { UNION { { [ t \in Range(table_types) |->
                            CASE t = "events" -> fe
                              [] t = "test_events" -> ft
                              [] t = "database_events" -> fd ] :
                        fe \in TableFrames("events", ne),
                        ft \in TableFrames("test_events", nt),
                        fd \in TableFrames("database_events", n - ne - nt) } :
                      nt \in 0..(n - ne) } :
              ne \in 0..n } ]

SourceRows(data) ==
  Len(data["events"].rows) + Len(data["test_events"].rows)
    + Len(data["database_events"].rows)

RECURSIVE TotalEventRows(_)
TotalEventRows(events) ==
  IF events = <<>> THEN 0
  ELSE SourceRows(Head(events).data) + TotalEventRows(Tail(events))

(***************************************************************************)
(* The formulas: up to MaxLines lines, each a call of one of the four      *)
(* forms, live or commented with an apostrophe, or a text that has the     *)
(* keyword of a call and not its form.                                     *)
(* A segment is the text of a line with the calls written in it.           *)
(***************************************************************************)
Call(name, commented) == [name |-> name, commented |-> commented]

Segments ==
  { [text |-> "GOSUB FOO", calls |-> {Call("FOO", FALSE)}],
    [text |-> "'GOSUB BAR", calls |-> {Call("BAR", TRUE)}],
    [text |-> "'GOSUB BAR : GOSUB FOO",
     calls |-> {Call("BAR", TRUE), Call("FOO", FALSE)}],
    [text |-> "Subroutine(\"BAZ\")", calls |-> {Call("BAZ", FALSE)}],
    [text |-> "'Subroutine(\"BAR\")", calls |-> {Call("BAR", TRUE)}],
    [text |-> "'BackgroundSubroutine(\"BAR\")", calls |-> {Call("BAR", TRUE)}],
    [text |-> "postsubroutine ( 'BAZ' )", calls |-> {Call("BAZ", FALSE)}],
    [text |-> "GOSUB 1", calls |-> {}],
    [text |-> "Subroutine()", calls |-> {}] }

\* the lines of a text
RECURSIVE Lines(_)
Lines(text) ==
  LET e == span_not(text, 1, {"\n"})
  IN IF e > Len(text) THEN <<text>>
     ELSE <<SubSeq(text, 1, e - 1)>> \o Lines(SubSeq(text, e + 1, Len(text)))

(***************************************************************************)
(* The connections whose events have a formula: two databases, each with   *)
(* the one event (TPL, EVT), whose formula is null, empty, or one or two   *)
(* of the lines of Segments; the other two tables have no rows.            *)
(***************************************************************************)
FormulaSources == <<"DB1", "DB2">>

FormulaValues ==
  {None, StrV("")}
    \cup {StrV(a.text) : a \in Segments}
    \cup {StrV(a.text \o "\n" \o b.text) : a \in Segments, b \in Segments}

\* what the three queries return: the rows of the event and no other row
FormulaTables(v) ==
  [ t \in Range(table_types) |->
      CASE t = "events" ->
             [ is_none |-> FALSE, columns |-> {"template", "event", "formula"},
               rows |-> <<[template |-> "TPL", event |-> "EVT", formula |-> v]>> ]
        [] t = "test_events" ->
             [ is_none |-> FALSE, columns |-> {"template", "event", "formula"},
               rows |-> <<>> ]
        [] t = "database_events" ->
             [ is_none |-> FALSE, columns |-> {"table_name", "event_name", "sub_name"},
               rows |-> <<>> ] ]

FormulaConnection(name, v) ==
  [ name |-> name, engine |-> "engine", connect |-> "ok",
    queries |-> [t \in Range(table_types) |-> "ok"],
    tables |-> FormulaTables(v) ]

(***************************************************************************)
(* The connections of a collection that can fail: up to Len(SourceNames)   *)
(* databases.  For collect_all_schemas a connection is the record of       *)
(* engine, connect, query (how the one query ends) and table; for          *)
(* collect_all_events it has queries and tables, one per table type.       *)
(***************************************************************************)
\* the DataFrame of the schema query
CollectedSchema ==
  [ is_none |-> FALSE, columns |-> AllColumns,
    rows |-> <<FullRow("T1", "A", IntV("10"))>> ]

SchemaConnections(name) ==
  { [name |-> name, engine |-> "none", connect |-> "ok", query |-> "ok",
     table |-> CollectedSchema],
    [name |-> name, engine |-> "engine", connect |-> "SQLAlchemyError", query |-> "ok",
     table |-> CollectedSchema] }
  \cup
  { [name |-> name, engine |-> "engine", connect |-> "ok", query |-> q,
     table |-> CollectedSchema] : q \in {"ok", "SQLAlchemyError", "Exception"} }

\* how the three queries of a connection can end
QueryOutcomes ==
  { [t \in Range(table_types) |-> "ok"],
    [t \in Range(table_types) |-> "SQLAlchemyError"],
    [t \in Range(table_types) |-> IF t = "database_events" THEN "SQLAlchemyError" ELSE "ok"],
    [t \in Range(table_types) |-> IF t = "test_events" THEN "Exception" ELSE "ok"] }

EventsConnections(name) ==
  { [name |-> name, engine |-> "none", connect |-> "ok",
     queries |-> [t \in Range(table_types) |-> "ok"],
     tables |-> FormulaTables(StrV("GOSUB FOO"))],
    [name |-> name, engine |-> "engine", connect |-> "SQLAlchemyError",
     queries |-> [t \in Range(table_types) |-> "ok"],
     tables |-> FormulaTables(StrV("GOSUB FOO"))] }
  \cup
  { [name |-> name, engine |-> "engine", connect |-> "ok", queries |-> q,
     tables |-> FormulaTables(StrV("GOSUB FOO"))] : q \in QueryOutcomes }

(***************************************************************************)
(* The state machine: the caller fills the mapping, one source after the   *)
(* other, and calls compare_all_schemas on it.                             *)
(***************************************************************************)
Init ==
  /\ schemas_dict = <<>>
  /\ pc = "collect"
  /\ result = EmptyDataFrame
  /\ formula = None
  /\ subroutines = <<>>
  /\ all_events = <<>>
  /\ connections = <<>>
  /\ position = 0

\* schema_repository[name] = schema_df
AddSource ==
  /\ pc = "collect"
  /\ Len(schemas_dict) < Len(SourceNames)
  /\ \E n \in 0..(MaxRows - TotalRows(schemas_dict)) :
       \E df \in Frames[n] :
         schemas_dict' =
           Append(schemas_dict, [name |-> SourceNames[Len(schemas_dict) + 1], df |-> df])
  /\ UNCHANGED <<pc, result, formula, subroutines, all_events, connections, position>>

\* diff_df = compare_all_schemas(schemas_dict)
CompareAllSchemas ==
  /\ pc = "collect"
  /\ result' = compare_all_schemas(schemas_dict)
  /\ schemas_dict' = schemas_after_compare(schemas_dict)
  /\ pc' = "returned"
  /\ UNCHANGED <<formula, subroutines, all_events, connections, position>>

Next == AddSource \/ CompareAllSchemas

Spec == Init /\ [][Next]_vars

\* schema_repository[name] = schema_df, for a source with null values
AddValueSource ==
  /\ pc = "collect"
  /\ Len(schemas_dict) < Len(SourceNames)
  /\ \E n \in 0..(MaxRows - TotalRows(schemas_dict)) :
       \E df \in ValueFrames[n] :
         schemas_dict' =
           Append(schemas_dict, [name |-> SourceNames[Len(schemas_dict) + 1], df |-> df])
  /\ UNCHANGED <<pc, result, formula, subroutines, all_events, connections, position>>

NextValues == AddValueSource \/ CompareAllSchemas

SpecValues == Init /\ [][NextValues]_vars

\* schema_repository[name] = schema_df, for a source with labels and names in
\* either letter case
AddCaseSource ==
  /\ pc = "collect"
  /\ Len(schemas_dict) < Len(SourceNames)
  /\ \E n \in 0..(MaxRows - TotalRows(schemas_dict)) :
       \E df \in CaseFrames[n] :
         schemas_dict' =
           Append(schemas_dict, [name |-> SourceNames[Len(schemas_dict) + 1], df |-> df])
  /\ UNCHANGED <<pc, result, formula, subroutines, all_events, connections, position>>

NextCase == AddCaseSource \/ CompareAllSchemas

SpecCase == Init /\ [][NextCase]_vars

\* the inputs with values of several types: column A of table T1 with a
\* DATA_LENGTH that is a number, the str of a number, or None
TypedLengths == {IntV("10"), IntV("20"), StrV("10"), None}

TypedRows == {FullRow("T1", "A", l) : l \in TypedLengths}

\* TypedFrames[n]: the DataFrames with exactly n such rows (and None, for n = 0)
TypedFrames ==
  [ n \in 0..MaxRows |->
      IF n = 0
      THEN {NoneDF, [is_none |-> FALSE, columns |-> AllColumns, rows |-> <<>>]}
      ELSE { [is_none |-> FALSE, columns |-> AllColumns, rows |-> rs] :
             rs \in [1..n -> TypedRows] } ]

\* schema_repository[name] = schema_df, for a source with values of several
\* types
AddTypedSource ==
  /\ pc = "collect"
  /\ Len(schemas_dict) < Len(SourceNames)
  /\ \E n \in 0..(MaxRows - TotalRows(schemas_dict)) :
       \E df \in TypedFrames[n] :
         schemas_dict' =
           Append(schemas_dict, [name |-> SourceNames[Len(schemas_dict) + 1], df |-> df])
  /\ UNCHANGED <<pc, result, formula, subroutines, all_events, connections, position>>

NextTypes == AddTypedSource \/ CompareAllSchemas

SpecTypes == Init /\ [][NextTypes]_vars

(***************************************************************************)
(* The extraction of the subroutine calls of one formula: the formula is   *)
(* read, null or line after line, and extract_subroutine_calls is applied  *)
(* to it.                                                                  *)
(***************************************************************************)
\* the formula of a row is NaN or the empty str
ReadNullFormula ==
  /\ pc = "collect"
  /\ formula = None
  /\ formula' \in {NaN, StrV("")}
  /\ UNCHANGED <<schemas_dict, pc, result, subroutines, all_events, connections, position>>

\* the formula of a row has one more line
ReadFormulaLine ==
  /\ pc = "collect"
  /\ \E seg \in Segments :
       \/ /\ formula = None
          /\ formula' = StrV(seg.text)
       \/ /\ formula[1] = "str" /\ formula[2] # ""
          /\ Len(Lines(formula[2])) < MaxLines
          /\ formula' = StrV(formula[2] \o "\n" \o seg.text)
  /\ UNCHANGED <<schemas_dict, pc, result, subroutines, all_events, connections, position>>

\* df_processed['formula'].apply(extract_subroutine_calls), for one row
ExtractSubroutineCalls ==
  /\ pc = "collect"
  /\ subroutines' = extract_subroutine_calls(formula)
  /\ pc' = "extracted"
  /\ UNCHANGED <<schemas_dict, result, formula, all_events, connections, position>>

NextCalls == ReadNullFormula \/ ReadFormulaLine \/ ExtractSubroutineCalls

SpecCalls == Init /\ [][NextCalls]_vars

(***************************************************************************)
(* The event comparison: the caller fills all_events, one source after the *)
(* other, and calls compare_events_data on it.  A call that raises returns *)
(* no DataFrame.                                                           *)
(***************************************************************************)
\* all_events[schema_name] = events_data
AddEventSource ==
  /\ pc = "collect"
  /\ Len(all_events) < Len(EventSourceNames)
  /\ \E n \in 0..(MaxEventRows - TotalEventRows(all_events)) :
       \E data \in EventData[n] :
         all_events' =
           Append(all_events, [name |-> EventSourceNames[Len(all_events) + 1], data |-> data])
  /\ UNCHANGED <<schemas_dict, pc, result, formula, subroutines, connections, position>>

\* diff_df = compare_events_data(all_events)
CompareEventsData ==
  /\ pc = "collect"
  /\ IF compare_events_raises(all_events)
     THEN pc' = "raised" /\ result' = result
     ELSE pc' = "events_returned" /\ result' = compare_events_data(all_events)
  /\ UNCHANGED <<schemas_dict, formula, subroutines, all_events, connections, position>>

NextEvents == AddEventSource \/ CompareEventsData

SpecEvents == Init /\ [][NextEvents]_vars

\* the inputs with a full stop in the names: rows of the events table whose
\* template or event has one
KeyedRows ==
  { [template |-> k[1], event |-> k[2], calls_list |-> StrV("FOO"),
     calls_count |-> IntV("1")] :
    k \in {<<"A.B", "C">>, <<"A", "B.C">>, <<"A", "C">>} }

\* KeyedData[n]: the events_data of a source with exactly n such rows
KeyedData ==
  [ n \in 0..MaxEventRows |->
      { [ t \in Range(table_types) |->
            IF t = "events" /\ n > 0
            THEN [is_none |-> FALSE,
                  columns |-> {"template", "event", "calls_list", "calls_count"},
                  rows |-> rs]
            ELSE NoColumnsDF ] :
        rs \in [1..n -> KeyedRows] } ]

\* all_events[schema_name] = events_data, for a source with such names
AddKeyedSource ==
  /\ pc = "collect"
  /\ Len(all_events) < Len(SourceNames)
  /\ \E n \in 0..(MaxEventRows - TotalEventRows(all_events)) :
       \E data \in KeyedData[n] :
         all_events' =
           Append(all_events, [name |-> SourceNames[Len(all_events) + 1], data |-> data])
  /\ UNCHANGED <<schemas_dict, pc, result, formula, subroutines, connections, position>>

NextKeys == AddKeyedSource \/ CompareEventsData

SpecKeys == Init /\ [][NextKeys]_vars

(***************************************************************************)
(* A run of either comparison: the caller collects the schemas or the      *)
(* events, in either letter case of the labels, and calls the comparison   *)
(* of what it has collected.                                               *)
(***************************************************************************)
\* execute_schema_comparison collects the schemas
CollectSchemas == all_events = <<>> /\ AddCaseSource

\* execute_events_comparison collects the events
CollectEvents == schemas_dict = <<>> /\ AddEventSource

NextRuns == CollectSchemas \/ CompareAllSchemas \/ CollectEvents \/ CompareEventsData

SpecRuns == Init /\ [][NextRuns]_vars

\* execute_schema_comparison collects schemas whose rows may repeat a table
\* and column with another DATA_LENGTH
CollectTypedSchemas == all_events = <<>> /\ AddTypedSource

\* execute_events_comparison collects the events of up to Len(SourceNames)
\* sources
CollectFewEvents == Len(all_events) < Len(SourceNames) /\ CollectEvents

NextDuplicates ==
  CollectTypedSchemas \/ CompareAllSchemas \/ CollectFewEvents \/ CompareEventsData

SpecDuplicates == Init /\ [][NextDuplicates]_vars

(***************************************************************************)
(* The collection of the events with their formulas and the comparison of  *)
(* what has been collected: collect_all_events handles the connections in  *)
(* their order, analyze_and_report_events compares the result.             *)
(***************************************************************************)
\* an item of the connections mapping
AddFormulaConnection ==
  /\ pc = "collect"
  /\ position = 0
  /\ Len(connections) < Len(FormulaSources)
  /\ \E v \in FormulaValues :
       connections' =
         Append(connections, FormulaConnection(FormulaSources[Len(connections) + 1], v))
  /\ UNCHANGED <<schemas_dict, pc, result, formula, subroutines, all_events, position>>

\* one pass of the loop of collect_all_events
CollectEventsData ==
  /\ pc = "collect"
  /\ position < Len(connections)
  /\ "queries" \in DOMAIN connections[position + 1]
  /\ LET conn == connections[position + 1]
         events_data == collect_events_data(conn)
     IN all_events' =
          IF DOMAIN events_data # {}
          THEN Append(all_events, [name |-> conn.name, data |-> events_data])
          ELSE all_events
  /\ position' = position + 1
  /\ UNCHANGED <<schemas_dict, pc, result, formula, subroutines, connections>>

\* analyze_and_report_events(all_events, ...), when collect_all_events has
\* returned two schemas or more
CompareCollectedEvents ==
  /\ position > 0
  /\ position = Len(connections)
  /\ Len(all_events) >= 2
  /\ CompareEventsData

NextFormulas == AddFormulaConnection \/ CollectEventsData \/ CompareCollectedEvents

SpecFormulas == Init /\ [][NextFormulas]_vars

(***************************************************************************)
(* The collection from connections that can fail: collect_all_schemas or   *)
(* collect_all_events handles the connections in their order.              *)
(***************************************************************************)
\* an item of the connections mapping given to collect_all_schemas
AddSchemaConnection ==
  /\ pc = "collect"
  /\ position = 0
  /\ Len(connections) < Len(SourceNames)
  /\ \A i \in 1..Len(connections) : "query" \in DOMAIN connections[i]
  /\ \E conn \in SchemaConnections(SourceNames[Len(connections) + 1]) :
       connections' = Append(connections, conn)
  /\ UNCHANGED <<schemas_dict, pc, result, formula, subroutines, all_events, position>>

\* an item of the connections mapping given to collect_all_events
AddEventsConnection ==
  /\ pc = "collect"
  /\ position = 0
  /\ Len(connections) < Len(SourceNames)
  /\ \A i \in 1..Len(connections) : "queries" \in DOMAIN connections[i]
  /\ \E conn \in EventsConnections(SourceNames[Len(connections) + 1]) :
       connections' = Append(connections, conn)
  /\ UNCHANGED <<schemas_dict, pc, result, formula, subroutines, all_events, position>>

\* one pass of the loop of collect_all_schemas
CollectSchema ==
  /\ pc = "collect"
  /\ position < Len(connections)
  /\ "query" \in DOMAIN connections[position + 1]
  /\ LET conn == connections[position + 1]
     IN schemas_dict' =
          IF conn.engine = "none" THEN schemas_dict
          ELSE IF conn.connect # "ok" \/ conn.query # "ok" THEN schemas_dict
          ELSE Append(schemas_dict, [name |-> conn.name, df |-> conn.table])
  /\ position' = position + 1
  /\ UNCHANGED <<pc, result, formula, subroutines, all_events, connections>>

NextCollect ==
  AddSchemaConnection \/ AddEventsConnection \/ CollectSchema \/ CollectEventsData

SpecCollect == Init /\ [][NextCollect]_vars

(***************************************************************************)
(* What the claims speak of, read off the input mapping and the result.    *)
(***************************************************************************)
Returned == pc = "returned"

Records == Range(result.rows)

\* a column label of the DataFrame, whatever its letter case
HasLabel(df, label) == \E c \in df.columns : Upper(c) = label

Field(r, label) == r[CHOOSE c \in DOMAIN r : Upper(c) = label]

\* the sources that take part in the comparison: neither None nor empty
Compared == {e \in Range(schemas_dict) : ~e.df.is_none /\ e.df.rows # <<>>}

ComparedNames == {e.name : e \in Compared}

\* the tables a source holds
TablesIn(e) ==
  IF HasLabel(e.df, "TABLE_NAME")
  THEN {Field(r, "TABLE_NAME") : r \in Range(e.df.rows)}
  ELSE {}

\* the columns a source holds for a table
ColumnsIn(e, t) ==
  IF HasLabel(e.df, "TABLE_NAME") /\ HasLabel(e.df, "COLUMN_NAME")
  THEN {Field(r, "COLUMN_NAME") : r \in {x \in Range(e.df.rows) : Field(x, "TABLE_NAME") = t}}
  ELSE {}

InputTables == UNION {TablesIn(e) : e \in Compared}

InputColumns == UNION {ColumnsIn(e, t) : e \in Compared, t \in InputTables}

\* the compared sources that hold table t
WithTable(t) == {e \in Compared : t \in TablesIn(e)}

\* the records of one difference type for one table and column
RecordsFor(t, c, type) ==
  { r \in Records :
      r["TABLE_NAME"] = t /\ r["COLUMN_NAME"] = c /\ r["DIFFERENCE_TYPE"] = type }

(***************************************************************************)
(* C1. A "Table Missing" record is emitted for table O if and only if O is *)
(* absent from at least one of the compared sources; a table present in    *)
(* every compared source gets no "Table Missing" record.                   *)
(***************************************************************************)
C1_TableMissingIff ==
  Returned =>
    /\ \A t \in InputTables :
         (RecordsFor(t, "", "Table Missing") # {})
           <=> (\E e \in Compared : t \notin TablesIn(e))
    /\ \A r \in Records :
         r["DIFFERENCE_TYPE"] = "Table Missing" =>
           r["TABLE_NAME"] \in InputTables /\ r["COLUMN_NAME"] = ""

\* a run that emits a "Table Missing" record for one table and none for
\* another table, which every one of at least two compared sources holds
C1_Witness ==
  /\ Returned
  /\ Cardinality(Compared) >= 2
  /\ \E t \in InputTables : RecordsFor(t, "", "Table Missing") # {}
  /\ \E t \in InputTables :
       /\ \A e \in Compared : t \in TablesIn(e)
       /\ RecordsFor(t, "", "Table Missing") = {}

(***************************************************************************)
(* C2. When table O exists in a proper non-empty subset K of the compared  *)
(* sources, its "Table Missing" record carries, for every compared source, *)
(* EXISTS if the source is in K and MISSING otherwise, and no other token  *)
(* and no other source.                                                    *)
(***************************************************************************)
C2_TableStatusMap ==
  Returned =>
    \A t \in InputTables :
      (WithTable(t) # Compared) =>
        /\ RecordsFor(t, "", "Table Missing") # {}
        /\ \A r \in RecordsFor(t, "", "Table Missing") :
             /\ DOMAIN r = Range(FixedColumns) \cup ComparedNames
             /\ \A e \in Compared :
                  r[e.name] = IF e \in WithTable(t) THEN "EXISTS" ELSE "MISSING"

\* three compared sources, a table held by two of them and reported so
C2_Witness ==
  /\ Returned
  /\ Cardinality(Compared) = 3
  /\ \E t \in InputTables :
       /\ Cardinality(WithTable(t)) = 2
       /\ \E r \in RecordsFor(t, "", "Table Missing") :
            Cardinality({n \in ComparedNames : r[n] = "EXISTS"}) = 2

(***************************************************************************)
(* C3. A "Column Missing" record is emitted for (T, c) if and only if T is *)
(* held by at least two compared sources and the sources that hold T do    *)
(* not all agree on whether c exists; the sources that lack T do not       *)
(* count, and a table held by exactly one source yields no such record.    *)
(***************************************************************************)
C3_ColumnMissingIff ==
  Returned =>
    /\ \A t \in InputTables : \A c \in InputColumns :
         (RecordsFor(t, c, "Column Missing") # {})
           <=> /\ Cardinality(WithTable(t)) >= 2
               /\ \E e1 \in WithTable(t) : c \in ColumnsIn(e1, t)
               /\ \E e2 \in WithTable(t) : c \notin ColumnsIn(e2, t)
    /\ \A r \in Records :
         r["DIFFERENCE_TYPE"] = "Column Missing" =>
           r["TABLE_NAME"] \in InputTables /\ r["COLUMN_NAME"] \in InputColumns

\* a run with a "Column Missing" record for a table that a third source lacks,
\* and with a table of exactly one source, whose columns yield no record
C3_Witness ==
  /\ Returned
  /\ \E t \in InputTables : \E c \in InputColumns :
       /\ RecordsFor(t, c, "Column Missing") # {}
       /\ WithTable(t) # Compared
  /\ \E t \in InputTables :
       /\ Cardinality(WithTable(t)) = 1
       /\ \E e \in WithTable(t) : ColumnsIn(e, t) # {}
       /\ \A c \in InputColumns : RecordsFor(t, c, "Column Missing") = {}

(***************************************************************************)
(* Attribute values, read off the input mapping.                           *)
(***************************************************************************)
\* the compared sources that hold column c of table t
WithColumn(t, c) == {e \in Compared : c \in ColumnsIn(e, t)}

\* the first row a source holds for column c of table t
FirstRow(e, t, c) ==
  LET i == CHOOSE k \in 1..Len(e.df.rows) :
             /\ Field(e.df.rows[k], "TABLE_NAME") = t
             /\ Field(e.df.rows[k], "COLUMN_NAME") = c
             /\ \A j \in 1..(k - 1) :
                  ~(Field(e.df.rows[j], "TABLE_NAME") = t
                      /\ Field(e.df.rows[j], "COLUMN_NAME") = c)
  IN e.df.rows[i]

\* the value a source holds for an attribute it has a column for, NaN and
\* None taken as one
Normalized(v) == IF v \in {None, NaN} THEN None ELSE v

ValueOf(e, t, c, attr) == Normalized(Field(FirstRow(e, t, c), attr))

\* the distinct values of the sources that hold the column and the attribute
ActualValues(t, c, attr) ==
  {ValueOf(e, t, c, attr) : e \in {x \in WithColumn(t, c) : HasLabel(x.df, attr)}}

\* the same, a source without the attribute counted as holding None
ValuesOrNone(t, c, attr) ==
  ActualValues(t, c, attr)
    \cup (IF \E e \in WithColumn(t, c) : ~HasLabel(e.df, attr) THEN {None} ELSE {})

Different(attr) == attr \o " Different"

\* the valid sources: not None, not empty, with both identifying columns
ValidSources ==
  {e \in Compared : HasLabel(e.df, "TABLE_NAME") /\ HasLabel(e.df, "COLUMN_NAME")}

\* the orders in which n sources can be inserted
Orderings(n) ==
  {f \in [1..n -> 1..n] : \A i, j \in 1..n : f[i] = f[j] => i = j}

Permuted(schemas, f) == [i \in 1..Len(schemas) |-> schemas[f[i]]]

\* the mapping without its i-th source
Without(schemas, i) ==
  [j \in 1..(Len(schemas) - 1) |-> IF j < i THEN schemas[j] ELSE schemas[j + 1]]

(***************************************************************************)
(* C4. For every (table, column) and every attribute, an "<attribute>      *)
(* Different" record is emitted if and only if the sources that hold the   *)
(* column hold at least two distinct normalized values of the attribute.   *)
(* "If" is stated for the values of the sources that have the attribute;   *)
(* "only if" also counts a source without the attribute as holding None.   *)
(***************************************************************************)
C4_AttributeDifferenceIff ==
  Returned =>
    \A t \in InputTables : \A c \in InputColumns : \A attr \in Range(attributes) :
      /\ Cardinality(ActualValues(t, c, attr)) >= 2
           => RecordsFor(t, c, Different(attr)) # {}
      /\ RecordsFor(t, c, Different(attr)) # {}
           => Cardinality(ValuesOrNone(t, c, attr)) >= 2

(***************************************************************************)
(* C5. An attribute is compared for a (table, column) held by two sources  *)
(* or more whenever some source has a column for the attribute: if then    *)
(* the sources hold different values (a source without the attribute       *)
(* holding None), the "<attribute> Different" record is emitted, whichever *)
(* source it is that has or lacks the attribute column.                    *)
(***************************************************************************)
C5_AttributeComparedIfAnySourceHasIt ==
  Returned /\ Len(schemas_dict) >= 2 =>
    \A t \in InputTables : \A c \in InputColumns : \A attr \in Range(attributes) :
      ( /\ Cardinality(WithColumn(t, c) \cap ValidSources) >= 2
        /\ \E e \in Compared : HasLabel(e.df, attr)
        /\ Cardinality(ValuesOrNone(t, c, attr)) >= 2 )
        => RecordsFor(t, c, Different(attr)) # {}

(***************************************************************************)
(* C6. Permuting the insertion order of the sources yields the same set of *)
(* records, with the same per-source values, and the same set of columns.  *)
(***************************************************************************)
C6_OrderIndependent ==
  Returned =>
    \A f \in Orderings(Len(schemas_dict)) :
      LET other == compare_all_schemas(Permuted(schemas_dict, f))
      IN Range(other.rows) = Records /\ Range(other.columns) = Range(result.columns)

(***************************************************************************)
(* C7. With fewer than 2 valid sources compare_all_schemas returns the     *)
(* error result (the DataFrame without columns), and a comparison of 2     *)
(* valid sources or more never returns that result.                        *)
(***************************************************************************)
C7_TooFewValidSourcesIsError ==
  Returned =>
    /\ Cardinality(ValidSources) < 2 => result = EmptyDataFrame
    /\ Cardinality(ValidSources) >= 2 => result # EmptyDataFrame

(***************************************************************************)
(* C8. A source that is None, empty or without the TABLE_NAME or the       *)
(* COLUMN_NAME column is dropped: no record reports it MISSING, and the    *)
(* records, that source's key left out, are those of the comparison of the *)
(* other sources alone.                                                    *)
(***************************************************************************)
C8_InvalidSourceDropped ==
  Returned =>
    \A i \in 1..Len(schemas_dict) :
      schemas_dict[i] \notin ValidSources =>
        LET name == schemas_dict[i].name
        IN /\ \A r \in Records : name \in DOMAIN r => r[name] # "MISSING"
           /\ {[k \in DOMAIN r \ {name} |-> r[k]] : r \in Records}
                = Range(compare_all_schemas(Without(schemas_dict, i)).rows)

(***************************************************************************)
(* C9. When a comparison of two sources or more has run, the columns of    *)
(* the result are the three fixed columns and one column per compared      *)
(* source, the header the table of differences carries, whether or not a   *)
(* difference was found.                                                   *)
(***************************************************************************)
C9_HeaderSameWithAndWithoutDifferences ==
  Returned /\ Cardinality(Compared) >= 2 =>
    /\ Range(result.columns) = Range(FixedColumns) \cup ComparedNames
    /\ Len(result.columns) = Cardinality(Range(result.columns))

(***************************************************************************)
(* C10. No two records of a result share (TABLE_NAME, COLUMN_NAME,         *)
(* DIFFERENCE_TYPE), and every record is of a combination on which the     *)
(* sources differ: a uniform combination has no record, also when a source *)
(* holds several rows for one table and column.                            *)
(***************************************************************************)
C10_OneRecordPerCombination ==
  Returned =>
    /\ \A i, j \in 1..Len(result.rows) :
         ( /\ result.rows[i]["TABLE_NAME"] = result.rows[j]["TABLE_NAME"]
           /\ result.rows[i]["COLUMN_NAME"] = result.rows[j]["COLUMN_NAME"]
           /\ result.rows[i]["DIFFERENCE_TYPE"] = result.rows[j]["DIFFERENCE_TYPE"] )
           => i = j
    /\ \A r \in Records :
         LET t == r["TABLE_NAME"]
             c == r["COLUMN_NAME"]
         IN CASE r["DIFFERENCE_TYPE"] = "Table Missing" ->
                   WithTable(t) # {} /\ WithTable(t) # Compared
              [] r["DIFFERENCE_TYPE"] = "Column Missing" ->
                   /\ \E e \in WithTable(t) : c \in ColumnsIn(e, t)
                   /\ \E e \in WithTable(t) : c \notin ColumnsIn(e, t)
              [] OTHER ->
                   \E attr \in Range(attributes) :
                     /\ r["DIFFERENCE_TYPE"] = Different(attr)
                     /\ Cardinality(ValuesOrNone(t, c, attr)) >= 2

\* a source holds two rows with different lengths for one table and column, a
\* second source holds the column too, and the one record of their difference
\* is emitted
C10_Witness ==
  /\ Returned
  /\ \E e \in Compared : \E i, j \in 1..Len(e.df.rows) :
       /\ i < j
       /\ HasLabel(e.df, "TABLE_NAME") /\ HasLabel(e.df, "COLUMN_NAME")
       /\ HasLabel(e.df, "DATA_LENGTH")
       /\ Field(e.df.rows[i], "DATA_LENGTH") # Field(e.df.rows[j], "DATA_LENGTH")
       /\ Field(e.df.rows[i], "TABLE_NAME") = Field(e.df.rows[j], "TABLE_NAME")
       /\ Field(e.df.rows[i], "COLUMN_NAME") = Field(e.df.rows[j], "COLUMN_NAME")
       /\ Cardinality(WithColumn(Field(e.df.rows[i], "TABLE_NAME"),
                                 Field(e.df.rows[i], "COLUMN_NAME"))) >= 2
       /\ RecordsFor(Field(e.df.rows[i], "TABLE_NAME"),
                     Field(e.df.rows[i], "COLUMN_NAME"),
                     Different("DATA_LENGTH")) # {}

(***************************************************************************)
(* C11. The universe built from the compared sources: all_tables is the    *)
(* union of the table names of the sources, table_columns[T] is the union  *)
(* of the column names of T over the sources that hold T, and both lists   *)
(* are in strictly ascending order, hence without duplicates.              *)
(***************************************************************************)
C11_UniverseIsSortedUnion ==
  Returned /\ Len(schemas_dict) >= 2 /\ Compared # {} =>
    LET universe == _create_universe(_normalize_schemas(schemas_dict))
        Ascending(list) ==
          \A i, j \in 1..Len(list) : i < j => StrLess(list[i], list[j])
    IN /\ Range(universe.all_tables) = InputTables
       /\ Ascending(universe.all_tables)
       /\ DOMAIN universe.table_columns = InputTables
       /\ \A t \in InputTables :
            /\ Range(universe.table_columns[t])
                 = UNION {ColumnsIn(e, t) : e \in WithTable(t)}
            /\ Ascending(universe.table_columns[t])

\* two tables, one of them with two columns that come from different sources,
\* the other held by one source only
C11_Witness ==
  /\ Returned
  /\ Cardinality(Compared) >= 2
  /\ LET universe == _create_universe(_normalize_schemas(schemas_dict))
     IN /\ Len(universe.all_tables) = 2
        /\ \E t \in InputTables :
             /\ Len(universe.table_columns[t]) = 2
             /\ \A e \in WithTable(t) : Cardinality(ColumnsIn(e, t)) = 1
        /\ \E t \in InputTables : Cardinality(WithTable(t)) = 1

(***************************************************************************)
(* C12. Two sources that hold identical data, null and NaN attribute       *)
(* values included, yield no difference record: the comparison of any      *)
(* source of the mapping with a copy of itself has no rows, and so has the *)
(* result of a run on a mapping of two identical sources.                  *)
(***************************************************************************)
C12_IdenticalSourcesNoRecords ==
  Returned =>
    /\ \A e \in Range(schemas_dict) :
         compare_all_schemas(<< [name |-> SourceNames[1], df |-> e.df],
                                [name |-> SourceNames[2], df |-> e.df] >>).rows = <<>>
    /\ ( Len(schemas_dict) = 2 /\ schemas_dict[1].df = schemas_dict[2].df )
         => result.rows = <<>>

\* a run on two identical sources with a row whose attributes include None
\* and NaN, which returns the table without rows
C12_Witness ==
  /\ Returned
  /\ Len(schemas_dict) = 2
  /\ schemas_dict[1].df = schemas_dict[2].df
  /\ schemas_dict[1] \in ValidSources
  /\ \E r \in Range(schemas_dict[1].df.rows) :
       r["DATA_PRECISION"] = None /\ r["DATA_SCALE"] = NaN
  /\ result.rows = <<>>
  /\ result.columns = FixedColumns \o keys(schemas_dict)

(***************************************************************************)
(* C13. NaN, None and an absent attribute value count as one value: a      *)
(* (table, column) whose sources hold nothing but these for an attribute   *)
(* gets no "<attribute> Different" record, and every record emitted for an *)
(* attribute shows 'NULL' for exactly the sources that hold the column     *)
(* with a NaN, None or absent value, and str(value) for the others.        *)
(***************************************************************************)
C13_NullNaNAbsentAreOneSentinel ==
  Returned =>
    \A t \in InputTables : \A c \in InputColumns : \A attr \in Range(attributes) :
      /\ ValuesOrNone(t, c, attr) = {None} => RecordsFor(t, c, Different(attr)) = {}
      /\ \A r \in RecordsFor(t, c, Different(attr)) : \A e \in WithColumn(t, c) :
           LET absent == ~HasLabel(e.df, attr)
               value == IF absent THEN None ELSE Field(FirstRow(e, t, c), attr)
           IN r[e.name] = IF value \in {None, NaN} THEN "NULL" ELSE str(value)

\* one source holds NaN and the other a number for DATA_LENGTH, reported as
\* 'NULL' and '10', while their DATA_SCALE, None in one and NaN in the
\* other, is not reported
C13_Witness ==
  /\ Returned
  /\ Len(schemas_dict) = 2
  /\ schemas_dict[1].df.columns = AllColumns /\ schemas_dict[2].df.columns = AllColumns
  /\ Len(schemas_dict[1].df.rows) = 1 /\ Len(schemas_dict[2].df.rows) = 1
  /\ schemas_dict[1].df.rows[1]["DATA_LENGTH"] = NaN
  /\ schemas_dict[2].df.rows[1]["DATA_LENGTH"] = IntV("10")
  /\ schemas_dict[1].df.rows[1]["DATA_SCALE"] = None
  /\ schemas_dict[2].df.rows[1]["DATA_SCALE"] = NaN
  /\ RecordsFor("T1", "A", Different("DATA_SCALE")) = {}
  /\ \E r \in RecordsFor("T1", "A", Different("DATA_LENGTH")) :
       r["DB1"] = "NULL" /\ r["DB2"] = "10"

\* str.upper() on the names of tables and columns
UpperKey(name) ==
  CASE name = "t1" -> "T1"
    [] name = "a" -> "A"
    [] OTHER -> name

(***************************************************************************)
(* C14. Tables and columns are identified by an upper-cased key: a table   *)
(* that every compared source holds under a name of some letter case gets  *)
(* no "Table Missing" record, and a column that every source holding the   *)
(* table holds under a name of some letter case gets no "Column Missing"   *)
(* record.                                                                 *)
(***************************************************************************)
C14_UpperCasedKeys ==
  Returned =>
    \A t \in InputTables :
      LET holders == {e \in Compared : \E t2 \in TablesIn(e) : UpperKey(t2) = UpperKey(t)}
      IN /\ holders = Compared => RecordsFor(t, "", "Table Missing") = {}
         /\ \A c \in InputColumns :
              (\A e \in holders : \E t2 \in TablesIn(e) : \E c2 \in ColumnsIn(e, t2) :
                 UpperKey(t2) = UpperKey(t) /\ UpperKey(c2) = UpperKey(c))
                => RecordsFor(t, c, "Column Missing") = {}

(***************************************************************************)
(* C14, amended. The column labels of the sources are upper-cased, the     *)
(* names of tables and columns are compared as they are: whatever the      *)
(* letter case of the labels, a table gets a "Table Missing" record if and *)
(* only if some compared source lacks a table of exactly that name, and a  *)
(* column a "Column Missing" record if and only if the sources holding the *)
(* table disagree on a column of exactly that name; T1 and t1 are two      *)
(* tables.                                                                 *)
(***************************************************************************)
C14_UpperCasedLabels ==
  Returned /\ Len(schemas_dict) >= 2 =>
    \A t \in InputTables :
      /\ (RecordsFor(t, "", "Table Missing") # {})
           <=> (\E e \in Compared : t \notin TablesIn(e))
      /\ \A r \in RecordsFor(t, "", "Table Missing") : \A e \in Compared :
           r[e.name] = IF t \in TablesIn(e) THEN "EXISTS" ELSE "MISSING"
      /\ \A c \in InputColumns :
           (RecordsFor(t, c, "Column Missing") # {})
             <=> /\ \E e1 \in WithTable(t) : c \in ColumnsIn(e1, t)
                 /\ \E e2 \in WithTable(t) : c \notin ColumnsIn(e2, t)

\* a source with lower-case labels and one with upper-case labels hold the
\* same table and column, of which no record is emitted, and one of them
\* holds a table whose name is that of the other's in the other letter case,
\* which is reported missing
C14_Witness ==
  /\ Returned
  /\ Len(schemas_dict) = 2
  /\ schemas_dict[1].df.columns = LowerColumns
  /\ schemas_dict[2].df.columns = AllColumns
  /\ \E t \in InputTables : \E c \in InputColumns :
       /\ \A e \in Compared : c \in ColumnsIn(e, t)
       /\ RecordsFor(t, "", "Table Missing") = {}
       /\ RecordsFor(t, c, "Column Missing") = {}
       /\ \E t2 \in InputTables :
            /\ t2 # t /\ UpperKey(t2) = UpperKey(t)
            /\ \E r \in RecordsFor(t2, "", "Table Missing") :
                 \E n \in ComparedNames : r[n] = "MISSING"

(***************************************************************************)
(* C15. A call of compare_all_schemas or of compare_events_data leaves its *)
(* input as it was: when the call has ended, with its DataFrame, with the  *)
(* empty DataFrame of fewer than two sources or with an exception, every   *)
(* source of the mapping has the column labels and the rows it had before  *)
(* the call.                                                               *)
(***************************************************************************)
C15_InputsNotMutated ==
  [][ pc = "collect" /\ pc' \in {"returned", "events_returned", "raised"}
        => /\ schemas_dict' = schemas_dict
           /\ all_events' = all_events ]_vars

\* compare_all_schemas has returned differences of two sources, one of them
\* with lower-case labels, and the source still has its lower-case labels
C15_Witness ==
  /\ Returned
  /\ result.rows # <<>>
  /\ \E e \in Range(schemas_dict) : e.df.columns = LowerColumns /\ e.df.rows # <<>>
  /\ \E e \in Range(schemas_dict) : e.df.columns = AllColumns /\ e.df.rows # <<>>

\* the input of the end-to-end scenario, DB1 and DB2 standing for Source1 and
\* Source2
C16_Scenario ==
  /\ Len(schemas_dict) = 2
  /\ schemas_dict[1].df.columns = AllColumns
  /\ schemas_dict[2].df.columns = AllColumns
  /\ schemas_dict[1].df.rows = << FullRow("T1", "A", IntV("10")) >>
  /\ \E l \in Lengths :
       schemas_dict[2].df.rows
         \in { << FullRow("T1", "A", IntV("20")), FullRow("T1", "B", l) >>,
               << FullRow("T1", "B", l), FullRow("T1", "A", IntV("20")) >> }

(***************************************************************************)
(* C16. The first source holds table T1 with column A of DATA_LENGTH 10,   *)
(* the second holds T1 with column A of DATA_LENGTH 20 and with column B:  *)
(* the result has exactly two records, (T1, A, DATA_LENGTH Different) with *)
(* "10" for the first source and "20" for the second, and (T1, B, Column   *)
(* Missing) with MISSING for the first and EXISTS for the second; there is *)
(* no Table Missing record.                                                *)
(***************************************************************************)
C16_EndToEnd ==
  Returned /\ C16_Scenario =>
    /\ result.columns = FixedColumns \o <<"DB1", "DB2">>
    /\ result.rows =
         << [ TABLE_NAME |-> "T1", COLUMN_NAME |-> "A",
              DIFFERENCE_TYPE |-> "DATA_LENGTH Different",
              DB1 |-> "10", DB2 |-> "20" ],
            [ TABLE_NAME |-> "T1", COLUMN_NAME |-> "B",
              DIFFERENCE_TYPE |-> "Column Missing",
              DB1 |-> "MISSING", DB2 |-> "EXISTS" ] >>

\* the comparison of the two sources of the scenario has returned
C16_Witness == Returned /\ C16_Scenario /\ Len(result.rows) = 2

(***************************************************************************)
(* What the claims speak of, read off the formula and the list returned.   *)
(***************************************************************************)
Extracted == pc = "extracted"

\* the lines of the formula, none for a formula that is not a text
FormulaLines ==
  IF formula[1] = "str" /\ formula[2] # "" THEN Lines(formula[2]) ELSE <<>>

\* the calls written in the formula
FormulaCalls ==
  UNION { (CHOOSE seg \in Segments : seg.text = FormulaLines[i]).calls :
          i \in 1..Len(FormulaLines) }

\* the names of the calls without an apostrophe before the keyword
LiveNames == {c.name : c \in {x \in FormulaCalls : ~x.commented}}

\* the names of the calls with an apostrophe before the keyword
CommentedNames == {c.name : c \in {x \in FormulaCalls : x.commented}}

\* the text of a sequence of lines
RECURSIVE JoinLines(_)
JoinLines(lines) ==
  IF Len(lines) = 1 THEN lines[1]
  ELSE lines[1] \o "\n" \o JoinLines(Tail(lines))

(***************************************************************************)
(* C17. A call whose keyword has an apostrophe right before it is left     *)
(* out, whichever of the four forms it has: a name that only calls with an *)
(* apostrophe refer to is not in the list extract_subroutine_calls         *)
(* returns.                                                                *)
(***************************************************************************)
C17_CommentedCallsExcluded ==
  Extracted => \A name \in CommentedNames \ LiveNames : name \notin Range(subroutines)

C19_NoCallsEmptyList ==
  Extracted /\ (formula \in {None, NaN, StrV("")} \/ FormulaCalls = {})
    => subroutines = <<>>

\* the empty list has been returned for a text of three lines without a
\* call, a GOSUB before a number and a Subroutine without a name among them
C19_Witness ==
  /\ Extracted
  /\ Len(FormulaLines) = 3
  /\ {"GOSUB 1", "Subroutine()"} \subseteq Range(FormulaLines)
  /\ FormulaCalls = {}
  /\ subroutines = <<>>

\* the call of compare_events_data has ended, with a DataFrame or with an
\* exception
EventsEnded == pc \in {"events_returned", "raised"}

\* the table of a type of a source has a row of the entry
HasEntry(data, table_type, entry) ==
  \E r \in Range(table_df_of(data, table_type).rows) :
    /\ key_columns(table_type)[1] \in DOMAIN r
    /\ key_columns(table_type)[2] \in DOMAIN r
    /\ r[key_columns(table_type)[1]] = entry[1]
    /\ r[key_columns(table_type)[2]] = entry[2]

\* the records of a difference type emitted for an entry of a table type
EntryRecords(table_type, entry, difference_type) ==
  { r \in Records : /\ r["table_type"] = table_type
                    /\ r["identifier"] = entry[1] \o "." \o entry[2]
                    /\ r["difference_type"] = difference_type }

(***************************************************************************)
(* C20. When compare_events_data has ended, for every entry of the         *)
(* universe of every table type: a record of type Event Missing has been   *)
(* emitted for the entry if and only if some source has the entry and some *)
(* source has not, and the record holds EXISTS under the sources that have *)
(* the entry and MISSING under the others.                                 *)
(***************************************************************************)
C20_EntryMissingRecord ==
  EventsEnded =>
    \A t \in Range(table_types) :
      \A entry \in Range(create_events_universe(all_events).all_entries[t]) :
        LET records == EntryRecords(t, entry, "Event Missing")
        IN /\ records # {}
                <=> /\ \E e \in Range(all_events) : HasEntry(e.data, t, entry)
                    /\ \E e \in Range(all_events) : ~HasEntry(e.data, t, entry)
           /\ \A r \in records :
                \A e \in Range(all_events) :
                  r[e.name] = IF HasEntry(e.data, t, entry) THEN "EXISTS" ELSE "MISSING"

\* the value of the comparison field in the first row of the entry in the
\* table of a source, as a record shows it: the text of the value, empty for
\* a null
FirstValue(data, table_type, entry) ==
  LET df == table_df_of(data, table_type)
      first == CHOOSE i \in 1..Len(df.rows) :
                 /\ HasEntry([t \in {table_type} |-> [df EXCEPT !.rows = <<df.rows[i]>>]],
                             table_type, entry)
                 /\ \A j \in 1..(i - 1) :
                      ~HasEntry([t \in {table_type} |-> [df EXCEPT !.rows = <<df.rows[j]>>]],
                                table_type, entry)
      field == IF table_type = "database_events" THEN "sub_name" ELSE "calls_list"
  IN IF field \in DOMAIN df.rows[first] /\ df.rows[first][field][1] \notin {"none", "nan"}
     THEN df.rows[first][field][2]
     ELSE ""

\* a difference type of a mismatch record
IsMismatch(difference_type) ==
  /\ Len(difference_type) > Len(" Mismatch")
  /\ SubSeq(difference_type, Len(difference_type) - Len(" Mismatch") + 1,
            Len(difference_type)) = " Mismatch"

\* the mismatch records emitted for an entry of a table type
MismatchRecords(table_type, entry) ==
  { r \in Records : /\ r["table_type"] = table_type
                    /\ r["identifier"] = entry[1] \o "." \o entry[2]
                    /\ IsMismatch(r["difference_type"]) }

\* the sources that have the entry
SourcesWith(table_type, entry) ==
  {e \in Range(all_events) : HasEntry(e.data, table_type, entry)}

\* the input of the event scenario, DB1 and DB2 standing for Source1 and
\* Source2: the event (TPL, EVT) with the calls FOO in one, FOO, BAR in the other
C21_Scenario ==
  /\ Len(all_events) = 2
  /\ \A i \in 1..2 :
       /\ all_events[i].data["test_events"] = NoColumnsDF
       /\ all_events[i].data["database_events"] = NoColumnsDF
       /\ all_events[i].data["events"].columns
            = {"template", "event", "calls_list", "calls_count"}
  /\ all_events[1].data["events"].rows = <<EventsRow("EVT", "FOO", "1")>>
  /\ all_events[2].data["events"].rows = <<EventsRow("EVT", "FOO, BAR", "2")>>

(***************************************************************************)
(* C21. When compare_events_data has ended, for every entry of the         *)
(* universe of every table type: a mismatch record has been emitted for    *)
(* the entry if and only if two or more sources have the entry and their   *)
(* values of the comparison field are not all the same; the record holds   *)
(* the value under every source that has the entry and MISSING under the   *)
(* others.  For the scenario the result is the one record of type          *)
(* Calls_List Mismatch with FOO under DB1 and FOO, BAR under DB2.          *)
(***************************************************************************)
C21_MismatchRecord ==
  EventsEnded =>
    /\ \A t \in Range(table_types) :
         \A entry \in Range(create_events_universe(all_events).all_entries[t]) :
           LET having == SourcesWith(t, entry)
               values == {FirstValue(e.data, t, entry) : e \in having}
               records == MismatchRecords(t, entry)
           IN /\ records # {}
                   <=> Cardinality(having) >= 2 /\ Cardinality(values) > 1
              /\ \A r \in records :
                   \A e \in Range(all_events) :
                     r[e.name] = IF e \in having THEN FirstValue(e.data, t, entry)
                                 ELSE "MISSING"
    /\ C21_Scenario =>
         result.rows =
           << make_event_row("events", "TPL.EVT", "Calls_List Mismatch",
                             ("DB1" :> "FOO") @@ ("DB2" :> "FOO, BAR")) >>

\* the entry is missing from a source and its values differ among the
\* sources that have it
MissingAndMismatched(table_type, entry) ==
  /\ \E e \in Range(all_events) : ~HasEntry(e.data, table_type, entry)
  /\ Cardinality({FirstValue(e.data, table_type, entry) :
                    e \in SourcesWith(table_type, entry)}) > 1

(***************************************************************************)
(* C22. When compare_events_data has ended, an entry that is missing from  *)
(* some source and whose values differ among the sources that have it has  *)
(* both an Event Missing record and a mismatch record.                     *)
(***************************************************************************)
C22_BothPassesFire ==
  EventsEnded =>
    \A t \in Range(table_types) :
      \A entry \in Range(create_events_universe(all_events).all_entries[t]) :
        MissingAndMismatched(t, entry) =>
          /\ EntryRecords(t, entry, "Event Missing") # {}
          /\ MismatchRecords(t, entry) # {}

\* a table of the source has rows and lacks one of its identifying columns
Malformed(data) ==
  \E t \in DOMAIN data :
    /\ data[t].rows # <<>>
    /\ \E i \in 1..2 : key_columns(t)[i] \notin data[t].columns

(***************************************************************************)
(* C23. A call of compare_events_data on two or more sources ends with a   *)
(* returned DataFrame, also when a source has a table with rows and        *)
(* without its identifying columns, and the DataFrame has the column of    *)
(* every source that is not malformed.                                     *)
(***************************************************************************)
C23_MalformedSourceNoAbort ==
  pc # "collect" /\ Len(all_events) >= 2 =>
    /\ pc = "events_returned"
    /\ \A e \in Range(all_events) :
         ~Malformed(e.data) => e.name \in Range(result.columns)

\* the source of the event comparison whose three queries failed: every
\* table is pd.DataFrame()
FailedEvents(data) == \A t \in DOMAIN data : data[t] = NoColumnsDF

\* the source of the schema comparison whose collection failed: None or an
\* empty DataFrame
FailedSchema(df) == df.is_none \/ empty(df)

\* the records without the columns of the sources of the given names
WithoutSources(rows, names) ==
  [i \in 1..Len(rows) |-> [k \in (DOMAIN rows[i]) \ names |-> rows[i][k]]]

\* the records compare_events_data emits: none when it raises
EventRecordsOf(events) ==
  IF compare_events_raises(events) THEN <<>> ELSE compare_events_data(events).rows

(***************************************************************************)
(* C24. When a comparison has ended, the records it has emitted, without   *)
(* the columns of the failed sources, are the records the comparison emits *)
(* for the input without the failed sources; in the schema comparison and  *)
(* in the event comparison.                                                *)
(***************************************************************************)
C24_FailedSourceIsAbsent ==
  /\ Returned =>
       LET failed == {e.name : e \in {x \in Range(schemas_dict) : FailedSchema(x.df)}}
           remaining == SelectSeq(schemas_dict, LAMBDA e : e.name \notin failed)
       IN WithoutSources(result.rows, failed) = compare_all_schemas(remaining).rows
  /\ EventsEnded =>
       LET failed == {e.name : e \in {x \in Range(all_events) : FailedEvents(x.data)}}
           remaining == SelectSeq(all_events, LAMBDA e : e.name \notin failed)
       IN WithoutSources(result.rows, failed) = EventRecordsOf(remaining)

\* the names of the live calls written in a formula
LiveNamesOf(v) ==
  LET lines == IF v[1] = "str" /\ v[2] # "" THEN Lines(v[2]) ELSE <<>>
      calls == UNION { (CHOOSE seg \in Segments : seg.text = lines[i]).calls :
                       i \in 1..Len(lines) }
  IN {c.name : c \in {x \in calls : ~x.commented}}

\* the formula of the event of a connection
FormulaOf(conn) == conn.tables["events"].rows[1]["formula"]

\* the row of the event in what has been collected from the i-th connection
CollectedRow(i) == all_events[i].data["events"].rows[1]

(***************************************************************************)
(* C28. For every event collected, calls_list is the text of the names     *)
(* extracted from the formula, in ascending order and joined with ', '     *)
(* (the empty text when there is none), and calls_count is the number of   *)
(* distinct names.  When the events of two connections have been compared  *)
(* and the live calls of the two formulas refer to the same set of names,  *)
(* the two calls_list are equal and no mismatch record has been emitted.   *)
(* The tables of the connections are the same after the collection.        *)
(***************************************************************************)
C28_CanonicalCallsList ==
  /\ [](/\ \A i \in 1..Len(all_events) :
             LET names == Range(extract_subroutine_calls(FormulaOf(connections[i])))
             IN /\ CollectedRow(i)["calls_list"] = StrV(join(", ", sorted_list(names)))
                /\ CollectedRow(i)["calls_count"] = IntV(int_str(Cardinality(names)))
        /\ pc = "events_returned" /\ Len(connections) = 2
             /\ LiveNamesOf(FormulaOf(connections[1])) = LiveNamesOf(FormulaOf(connections[2]))
             => /\ CollectedRow(1)["calls_list"] = CollectedRow(2)["calls_list"]
                /\ \A r \in Records : ~IsMismatch(r["difference_type"]))
  /\ [][position' # position => connections' = connections]_vars

\* the connections the loop of the collection has handled
Handled == SubSeq(connections, 1, position)

\* the connection was established and no query of the collection raised
Succeeded(conn) ==
  /\ conn.engine = "engine"
  /\ conn.connect = "ok"
  /\ IF "query" \in DOMAIN conn THEN conn.query = "ok"
     ELSE \A t \in DOMAIN conn.queries : conn.queries[t] = "ok"

\* the names of the connections handled whose collection succeeded, in the
\* order of the mapping
SucceededNames ==
  LET kept == SelectSeq(Handled, Succeeded)
  IN [i \in 1..Len(kept) |-> kept[i].name]

(***************************************************************************)
(* C25. At every point of collect_all_schemas and of collect_all_events,   *)
(* the keys of the mapping collected so far are the names of the           *)
(* connections handled whose connection was established and whose queries  *)
(* did not raise, and while a connection is left the loop goes on to it,   *)
(* whatever happened to the connections before it.                         *)
(***************************************************************************)
C25_CollectionSkipsFailures ==
  /\ (connections # <<>> /\ "query" \in DOMAIN connections[1])
       => keys(schemas_dict) = SucceededNames
  /\ (connections # <<>> /\ "queries" \in DOMAIN connections[1])
       => keys(all_events) = SucceededNames
  /\ (0 < position /\ position < Len(connections))
       => ENABLED (CollectSchema \/ CollectEventsData)

(***************************************************************************)
(* Status tokens of the schema records.                                    *)
(***************************************************************************)
\* the text a record shows for a value: the value's own text, NULL for
\* None and NaN
Shown(v) == IF Normalized(v) = None THEN "NULL" ELSE v[2]

\* the text a record shows for the attribute of a source holding the column
ShownValue(e, t, c, attr) ==
  IF HasLabel(e.df, attr) THEN Shown(ValueOf(e, t, c, attr)) ELSE "NULL"

AttributeRecords ==
  {r \in Records : \E k \in 1..Len(attributes) :
                     r["DIFFERENCE_TYPE"] = Different(attributes[k])}

\* the attribute a record of AttributeRecords is about
AttributeOf(r) ==
  attributes[CHOOSE k \in 1..Len(attributes) :
               r["DIFFERENCE_TYPE"] = Different(attributes[k])]

(***************************************************************************)
(* C26. Every record has a value for every compared source.  A "Table      *)
(* Missing" record holds only EXISTS and MISSING, at least one of each.  A *)
(* "Column Missing" record holds N/A for exactly the sources that lack the *)
(* table, and EXISTS or MISSING for the others, at least one of each.  An  *)
(* attribute record holds N/A for exactly the sources that lack the        *)
(* column, and the text of the source's value, or NULL, for the others.    *)
(***************************************************************************)
C26_StatusTokenPlacement ==
  Returned =>
    \A r \in Records :
      LET t == r["TABLE_NAME"]
          c == r["COLUMN_NAME"]
          tokens == {r[n] : n \in ComparedNames}
      IN /\ DOMAIN r = Range(FixedColumns) \cup ComparedNames
         /\ r["DIFFERENCE_TYPE"] = "Table Missing" =>
              tokens = {"EXISTS", "MISSING"}
         /\ r["DIFFERENCE_TYPE"] = "Column Missing" =>
              /\ \A e \in Compared :
                   /\ r[e.name] = "N/A" <=> e \notin WithTable(t)
                   /\ e \in WithTable(t) => r[e.name] \in {"EXISTS", "MISSING"}
              /\ {"EXISTS", "MISSING"} \subseteq tokens
         /\ r \in AttributeRecords =>
              \A e \in Compared :
                /\ r[e.name] = "N/A" <=> e \notin WithColumn(t, c)
                /\ e \in WithColumn(t, c) =>
                     r[e.name] = ShownValue(e, t, c, AttributeOf(r))

\* a run of three compared sources whose result holds a "Column Missing"
\* record and an attribute record with N/A for the source that lacks the
\* column and two different texts for the other two
C26_Witness ==
  /\ Returned
  /\ Cardinality(Compared) = 3
  /\ \E r \in Records :
       /\ r["DIFFERENCE_TYPE"] = "Column Missing"
       /\ {r[n] : n \in ComparedNames} = {"EXISTS", "MISSING"}
  /\ \E r \in AttributeRecords :
       Cardinality({r[n] : n \in ComparedNames} \ {"NULL"}) = 3
         /\ \E n \in ComparedNames : r[n] = "N/A"

(***************************************************************************)
(* C27. Every attribute record shows a difference: the texts it holds for  *)
(* the sources that have the column include at least two different texts,  *)
(* whatever the types of the values.                                       *)
(***************************************************************************)
C27_VisibleDifference ==
  Returned =>
    \A r \in AttributeRecords :
      Cardinality({r[e.name] :
                     e \in WithColumn(r["TABLE_NAME"], r["COLUMN_NAME"])}) >= 2

(***************************************************************************)
(* C29. When compare_events_data has returned, two different entries of    *)
(* one table type have different identifiers, and no two records of the    *)
(* result have the same table_type, identifier and difference_type.        *)
(***************************************************************************)
C29_DistinctIdentifiers ==
  pc = "events_returned" =>
    /\ \A t \in Range(table_types) :
         \A a, b \in UNION {schema_entries(e.data, t) : e \in Range(all_events)} :
           a # b => a[1] \o "." \o a[2] # b[1] \o "." \o b[2]
    /\ \A i, j \in 1..Len(result.rows) :
         (/\ result.rows[i]["table_type"] = result.rows[j]["table_type"]
          /\ result.rows[i]["identifier"] = result.rows[j]["identifier"]
          /\ result.rows[i]["difference_type"] = result.rows[j]["difference_type"])
           => i = j

(***************************************************************************)
(* Rows that repeat a key.                                                 *)
(***************************************************************************)
\* the rows that are the first of their key, the key being the values under
\* the two labels
RECURSIVE FirstOfEachKey(_, _)
FirstOfEachKey(rows, labels) ==
  IF rows = <<>> THEN <<>>
  ELSE LET n == Len(rows)
           last == rows[n]
           repeated == \E j \in 1..(n - 1) :
                         /\ rows[j][labels[1]] = last[labels[1]]
                         /\ rows[j][labels[2]] = last[labels[2]]
           before == FirstOfEachKey(SubSeq(rows, 1, n - 1), labels)
       IN IF repeated THEN before ELSE Append(before, last)

\* a DataFrame without the later rows of a key; a DataFrame that lacks a key
\* column has no keys and is left as it is
WithoutLaterRows(df, labels) ==
  IF df.is_none \/ ~(labels[1] \in df.columns /\ labels[2] \in df.columns) THEN df
  ELSE [df EXCEPT !.rows = FirstOfEachKey(df.rows, labels)]

\* the labels of a schema DataFrame that name the table and the column
SchemaLabels(df) ==
  IF df.is_none \/ ~(HasLabel(df, "TABLE_NAME") /\ HasLabel(df, "COLUMN_NAME"))
  THEN <<"TABLE_NAME", "COLUMN_NAME">>
  ELSE << CHOOSE c \in df.columns : Upper(c) = "TABLE_NAME",
          CHOOSE c \in df.columns : Upper(c) = "COLUMN_NAME" >>

SchemasWithoutLaterRows ==
  [ i \in 1..Len(schemas_dict) |->
      [ name |-> schemas_dict[i].name,
        df |-> WithoutLaterRows(schemas_dict[i].df, SchemaLabels(schemas_dict[i].df)) ] ]

EventsWithoutLaterRows ==
  [ i \in 1..Len(all_events) |->
      [ name |-> all_events[i].name,
        data |-> [ t \in DOMAIN all_events[i].data |->
                     WithoutLaterRows(all_events[i].data[t], key_columns(t)) ] ] ]

\* a source has two rows of one key
RepeatsKey(df, labels) ==
  /\ ~df.is_none
  /\ labels[1] \in df.columns /\ labels[2] \in df.columns
  /\ \E i, j \in 1..Len(df.rows) :
       /\ i < j
       /\ df.rows[i][labels[1]] = df.rows[j][labels[1]]
       /\ df.rows[i][labels[2]] = df.rows[j][labels[2]]

(***************************************************************************)
(* C30. Only the first row a source holds for a key takes part in the      *)
(* comparison: the schema comparison returns what it returns for the       *)
(* sources without the later rows of each table and column, and the event  *)
(* comparison ends as it ends, with the same records, for the sources      *)
(* without the later rows of each entry.                                   *)
(***************************************************************************)
C30_FirstRowOnly ==
  /\ Returned => result = compare_all_schemas(SchemasWithoutLaterRows)
  /\ EventsEnded =>
       /\ pc = "raised" <=> compare_events_raises(EventsWithoutLaterRows)
       /\ pc = "events_returned" =>
            result = compare_events_data(EventsWithoutLaterRows)

\* an event comparison that has returned a mismatch record for an entry of
\* which one source holds two rows with different values: the record shows
\* the value of the first of the two
C30_Witness ==
  /\ pc = "events_returned"
  /\ \E e \in Range(all_events) :
       /\ RepeatsKey(e.data["events"], key_columns("events"))
       /\ \E i, j \in 1..Len(e.data["events"].rows) :
            /\ i < j
            /\ e.data["events"].rows[i]["template"] = e.data["events"].rows[j]["template"]
            /\ e.data["events"].rows[i]["event"] = e.data["events"].rows[j]["event"]
            /\ e.data["events"].rows[i]["calls_list"] # e.data["events"].rows[j]["calls_list"]
            /\ \E r \in Records :
                 /\ r["difference_type"] = "Calls List Mismatch"
                 /\ r[e.name] = str(e.data["events"].rows[i]["calls_list"])

====
